---- MODULE Spec2Model ----
(***************************************************************************)
(* DocFlow AI: the workflow engine (Workflow), the localStorage manager    *)
(* (Storage) and the audit log (Audit).                                    *)
(*                                                                         *)
(* JavaScript objects are functions from key names to values; a key that   *)
(* is not in the DOMAIN is an absent (undefined) property.  Texts typed by *)
(* a user or extracted from a document are sequences of one-character      *)
(* strings, so that trim, replace and parseFloat are computed character by *)
(* character; texts produced by the program are TLA+ strings.              *)
(***************************************************************************)
EXTENDS Integers, Sequences, FiniteSets, TLC

VARIABLES documents,    \* localStorage docflow_documents: array of documents
          auditLogs,    \* localStorage docflow_audit_logs: array of entries
          currentUser,  \* localStorage docflow_current_user: <<>> or <<session>>
          clock,        \* the value new Date() / Date.now() returns next
          result,       \* the last call: its name, arguments and outcome
          quotaExceeded,\* localStorage.setItem throws QuotaExceededError
          evalDoc,      \* the document handed to evaluateRules (pure check)
          evalOut,      \* what evaluateRules returned for evalDoc
          users,        \* localStorage docflow_users: array of users
          nlpIn,        \* the arguments handed to a function of NLP
          nlpOut,       \* what the calls of that function returned, in order
          calls,        \* the calls of two pages that share the store, each with its position
          ocr           \* the OCR object: its worker, and its calls in flight

vars == <<documents, auditLogs, currentUser, clock, result, quotaExceeded,
          evalDoc, evalOut, users, nlpIn, nlpOut,
          calls,
          ocr>>

\* ------------------------------------------------------------------ bounds
MaxDocs == 2
MaxClock == 4

\* --------------------------------------------------------------- JS values
Null == "<null>"

\* const OCR = { worker: null, ... }: no worker, no worker created since the
\* last call of terminate, no worker made at all, no call in flight
OCR == [worker |-> <<>>, created |-> 0, made |-> 0, tasks |-> <<>>]

Has(obj, key) == key \in DOMAIN obj

EmptyObject == [k \in {} |-> <<>>]

\* JavaScript truthiness of a text: the empty string is falsy.
Truthy(s) == s # <<>>

\* The same for a text the program produced.
TruthyStr(s) == s # ""

\* obj[key] used as a condition: absent keys and empty strings are falsy.
FieldTruthy(obj, key) == Has(obj, key) /\ Truthy(obj[key])

\* { ...obj, ...updates }
Spread(obj, updates) == updates @@ obj

Whitespace == {" ", "\t", "\n"}

DigitChars == {"0", "1", "2", "3", "4", "5", "6", "7", "8", "9"}

DigitVal(c) ==
    CASE c = "0" -> 0 [] c = "1" -> 1 [] c = "2" -> 2 [] c = "3" -> 3
      [] c = "4" -> 4 [] c = "5" -> 5 [] c = "6" -> 6 [] c = "7" -> 7
      [] c = "8" -> 8 [] c = "9" -> 9

DigitChar(n) ==
    CASE n = 0 -> "0" [] n = 1 -> "1" [] n = 2 -> "2" [] n = 3 -> "3"
      [] n = 4 -> "4" [] n = 5 -> "5" [] n = 6 -> "6" [] n = 7 -> "7"
      [] n = 8 -> "8" [] n = 9 -> "9"

\* String.prototype.trim
RECURSIVE TrimLeft(_)
TrimLeft(s) ==
    IF s # <<>> /\ Head(s) \in Whitespace THEN TrimLeft(Tail(s)) ELSE s

RECURSIVE TrimRight(_)
TrimRight(s) ==
    IF s # <<>> /\ s[Len(s)] \in Whitespace
    THEN TrimRight(SubSeq(s, 1, Len(s) - 1))
    ELSE s

Trim(s) == TrimRight(TrimLeft(s))

\* s.replace(/[$,]/g, '')
StripCurrency(s) == SelectSeq(s, LAMBDA c : c \notin {"$", ","})

\* The number of leading digit characters of s.
RECURSIVE DigitRun(_)
DigitRun(s) ==
    IF s # <<>> /\ Head(s) \in DigitChars THEN 1 + DigitRun(Tail(s)) ELSE 0

\* The value of a sequence of digit characters, continuing from acc.
RECURSIVE DigitsValue(_, _)
DigitsValue(s, acc) ==
    IF s = <<>> THEN acc ELSE DigitsValue(Tail(s), 10 * acc + DigitVal(Head(s)))

RECURSIVE Pow10(_)
Pow10(n) == IF n = 0 THEN 1 ELSE 10 * Pow10(n - 1)

\* A number is the exact decimal fraction num / den, den a power of ten,
\* with no trailing zero in the fraction; NaN is a separate value.
NaN == [nan |-> TRUE, num |-> 0, den |-> 1]

RECURSIVE Normalize(_, _)
Normalize(num, den) ==
    IF den > 1 /\ num % 10 = 0
    THEN Normalize(num \div 10, den \div 10)
    ELSE [nan |-> FALSE, num |-> num, den |-> den]

Zero == Normalize(0, 1)

\* parseFloat: skip leading white space, an optional sign, digits, an
\* optional fraction; NaN when no digit was read.  (Exponents and the word
\* Infinity need characters the modelled texts do not contain.)
ParseFloat(str) ==
    LET s0 == TrimLeft(str)
        signed == s0 # <<>> /\ Head(s0) \in {"+", "-"}
        neg == signed /\ Head(s0) = "-"
        s1 == IF signed THEN Tail(s0) ELSE s0
        ni == DigitRun(s1)
        intPart == SubSeq(s1, 1, ni)
        rest == SubSeq(s1, ni + 1, Len(s1))
        dotted == rest # <<>> /\ Head(rest) = "."
        nf == IF dotted THEN DigitRun(Tail(rest)) ELSE 0
        fracPart == IF dotted THEN SubSeq(Tail(rest), 1, nf) ELSE <<>>
        magnitude == DigitsValue(fracPart, DigitsValue(intPart, 0))
    IN  IF ni + nf = 0 THEN NaN
        ELSE Normalize(IF neg THEN 0 - magnitude ELSE magnitude, Pow10(nf))

\* x || 0 for a number x: NaN and 0 are falsy.
OrZero(x) == IF x.nan \/ x.num = 0 THEN Zero ELSE x

\* amount >= n, amount < n for an integer n
NumGE(x, n) == x.num >= n * x.den
NumLT(x, n) == x.num < n * x.den

\* Number.prototype.toLocaleString (en-US): the integer part in groups of
\* three digits, then the fraction if there is one.
RECURSIVE NatToString(_)
NatToString(n) ==
    IF n < 10 THEN DigitChar(n) ELSE NatToString(n \div 10) \o DigitChar(n % 10)

Pad3(n) ==
    IF n < 10 THEN "00" \o NatToString(n)
    ELSE IF n < 100 THEN "0" \o NatToString(n)
    ELSE NatToString(n)

RECURSIVE Grouped(_)
Grouped(n) ==
    IF n < 1000 THEN NatToString(n)
    ELSE Grouped(n \div 1000) \o "," \o Pad3(n % 1000)

RECURSIVE FractionDigits(_, _)
FractionDigits(f, den) ==
    IF den = 1 THEN ""
    ELSE DigitChar(f \div (den \div 10)) \o FractionDigits(f % (den \div 10), den \div 10)

toLocaleString(x) ==
    LET mag == IF x.num < 0 THEN 0 - x.num ELSE x.num
    IN  (IF x.num < 0 THEN "-" ELSE "")
        \o Grouped(mag \div x.den)
        \o (IF x.den = 1 THEN "" ELSE "." \o FractionDigits(mag % x.den, x.den))

\* Array.prototype.join(', ')
RECURSIVE Join(_)
Join(names) ==
    IF names = <<>> THEN ""
    ELSE IF Len(names) = 1 THEN names[1]
    ELSE names[1] \o ", " \o Join(Tail(names))

\* ------------------------------------------------------- Workflow: rules
NoMatch == [matched |-> FALSE]

\* _extractAmount if it went on to the next key when a value is not a number
_extractAmountFirstNumber(document) ==
    IF ~Has(document, "extractedFields") THEN Zero
    ELSE LET f == document.extractedFields
             Read(key) == IF FieldTruthy(f, key)
                          THEN OrZero(ParseFloat(StripCurrency(f[key])))
                          ELSE Zero
         IN  IF Read("Amount") # Zero THEN Read("Amount")
             ELSE IF Read("Value") # Zero THEN Read("Value")
             ELSE Read("Total")

\* Workflow._extractAmount
_extractAmount(document) ==
    IF ~Has(document, "extractedFields") THEN Zero
    ELSE LET f == document.extractedFields
         IN  IF FieldTruthy(f, "Amount") THEN OrZero(ParseFloat(StripCurrency(f["Amount"])))
             ELSE IF FieldTruthy(f, "Value") THEN OrZero(ParseFloat(StripCurrency(f["Value"])))
             ELSE IF FieldTruthy(f, "Total") THEN OrZero(ParseFloat(StripCurrency(f["Total"])))
             ELSE Zero

\* Comparisons with an absent riskScore (undefined) are false.
RiskGE(doc, n) == Has(doc, "riskScore") /\ doc.riskScore >= n
RiskLT(doc, n) == Has(doc, "riskScore") /\ doc.riskScore < n
RiskLE(doc, n) == Has(doc, "riskScore") /\ doc.riskScore <= n

RiskText(doc) == IF Has(doc, "riskScore") THEN ToString(doc.riskScore) ELSE "undefined"

\* Rule 1
\* Rule 1 returning the result object of rule 5
HighRiskReviewApproves(doc) ==
    IF RiskGE(doc, 7)
    THEN [matched |-> TRUE, status |-> "approved", autoApproved |-> TRUE,
          reason |-> "High risk score (" \o RiskText(doc) \o "/10) requires manual review"]
    ELSE NoMatch

HighRiskReview(doc) ==
    IF RiskGE(doc, 7)
    THEN [matched |-> TRUE, status |-> "needs-review", autoApproved |-> FALSE,
          reason |-> "High risk score (" \o RiskText(doc) \o "/10) requires manual review"]
    ELSE NoMatch

\* Rule 2
LargeAmountReview(doc) ==
    LET amount == _extractAmount(doc)
    IN  IF NumGE(amount, 10000)
        THEN [matched |-> TRUE, status |-> "needs-review", autoApproved |-> FALSE,
              reason |-> "Amount of $" \o toLocaleString(amount)
                         \o " requires manual review (threshold: $10,000)"]
        ELSE NoMatch

\* Rule 3
CriticalFields(doc) ==
    IF doc.type = "invoice"
    THEN <<"Invoice Number", "Amount", "Date">>
    ELSE <<"Contract Number", "Parties", "Effective Date">>

\* Rule 3 looking only at the keys the document has
MissingFieldsReviewOfPresentKeys(doc) ==
    LET missingFields ==
            SelectSeq(CriticalFields(doc),
                      LAMBDA field : /\ Has(doc, "extractedFields")
                                     /\ Has(doc.extractedFields, field)
                                     /\ ~FieldTruthy(doc.extractedFields, field))
    IN  IF Len(missingFields) > 0
        THEN [matched |-> TRUE, status |-> "needs-review", autoApproved |-> FALSE,
              reason |-> "Missing critical fields: " \o Join(missingFields)]
        ELSE NoMatch

\* Rule 3 if it matched only when every critical field is missing
MissingFieldsReviewAllMissing(doc) ==
    LET missingFields ==
            SelectSeq(CriticalFields(doc),
                      LAMBDA field : ~Has(doc, "extractedFields")
                                     \/ ~FieldTruthy(doc.extractedFields, field))
    IN  IF Len(missingFields) = Len(CriticalFields(doc))
        THEN [matched |-> TRUE, status |-> "needs-review", autoApproved |-> FALSE,
              reason |-> "Missing critical fields: " \o Join(missingFields)]
        ELSE NoMatch

MissingFieldsReview(doc) ==
    LET missingFields ==
            SelectSeq(CriticalFields(doc),
                      LAMBDA field : ~Has(doc, "extractedFields")
                                     \/ ~FieldTruthy(doc.extractedFields, field))
    IN  IF Len(missingFields) > 0
        THEN [matched |-> TRUE, status |-> "needs-review", autoApproved |-> FALSE,
              reason |-> "Missing critical fields: " \o Join(missingFields)]
        ELSE NoMatch

\* Rule 4 without its amount condition
ModerateRiskReviewAnyAmount(doc) ==
    LET amount == _extractAmount(doc)
    IN  IF RiskGE(doc, 4) /\ RiskLT(doc, 7)
        THEN [matched |-> TRUE, status |-> "needs-review", autoApproved |-> FALSE,
              reason |-> "Moderate risk (" \o RiskText(doc) \o "/10) with amount $"
                         \o toLocaleString(amount) \o " requires review"]
        ELSE NoMatch

\* Rule 4
ModerateRiskReview(doc) ==
    LET amount == _extractAmount(doc)
    IN  IF RiskGE(doc, 4) /\ RiskLT(doc, 7) /\ NumGE(amount, 5000)
        THEN [matched |-> TRUE, status |-> "needs-review", autoApproved |-> FALSE,
              reason |-> "Moderate risk (" \o RiskText(doc) \o "/10) with amount $"
                         \o toLocaleString(amount) \o " requires review"]
        ELSE NoMatch

\* Rule 5
FieldsCount(doc) ==
    IF Has(doc, "extractedFields") THEN Cardinality(DOMAIN doc.extractedFields) ELSE 0

\* Rule 5 with the bound of its comment, "Risk score < 3"
AutoApproveRiskBelow3(doc) ==
    LET amount == _extractAmount(doc)
        fieldsCount == FieldsCount(doc)
        hasEnoughFields == fieldsCount >= 2 \/ (NumLT(amount, 1000) /\ fieldsCount >= 1)
    IN  IF RiskLT(doc, 3) /\ NumLT(amount, 5000) /\ hasEnoughFields
        THEN [matched |-> TRUE, status |-> "approved", autoApproved |-> TRUE,
              reason |-> "Auto-approved: Low risk (" \o RiskText(doc) \o "/10), amount $"
                         \o toLocaleString(amount) \o " under threshold, "
                         \o ToString(fieldsCount) \o " fields extracted"]
        ELSE NoMatch

AutoApproveSimpleDocuments(doc) ==
    LET amount == _extractAmount(doc)
        fieldsCount == FieldsCount(doc)
        hasEnoughFields == fieldsCount >= 2 \/ (NumLT(amount, 1000) /\ fieldsCount >= 1)
    IN  IF RiskLE(doc, 3) /\ NumLT(amount, 5000) /\ hasEnoughFields
        THEN [matched |-> TRUE, status |-> "approved", autoApproved |-> TRUE,
              reason |-> "Auto-approved: Low risk (" \o RiskText(doc) \o "/10), amount $"
                         \o toLocaleString(amount) \o " under threshold, "
                         \o ToString(fieldsCount) \o " fields extracted"]
        ELSE NoMatch

\* Workflow.getRules: the rule names in order of precedence
getRules ==
    <<"High Risk Review", "Large Amount Review", "Missing Fields Review",
      "Moderate Risk Review", "Auto Approve Simple Documents">>

\* rule.evaluate(document) for the i-th rule
RuleEvaluate(i, doc) ==
    CASE i = 1 -> HighRiskReview(doc)
      [] i = 2 -> LargeAmountReview(doc)
      [] i = 3 -> MissingFieldsReview(doc)
      [] i = 4 -> ModerateRiskReview(doc)
      [] i = 5 -> AutoApproveSimpleDocuments(doc)

DefaultDecision ==
    [status |-> "needs-review", autoApproved |-> FALSE,
     reason |-> "Document requires manual review", appliedRules |-> <<>>]

\* The loop of evaluateRules without the break after a needs-review result
RECURSIVE RuleLoopNoBreak(_, _, _, _)
RuleLoopNoBreak(doc, i, decision, evaluated) ==
    IF i > Len(getRules) THEN [decision |-> decision, evaluated |-> evaluated]
    ELSE LET res == RuleEvaluate(i, doc)
             seen == Append(evaluated, getRules[i])
         IN  IF res.matched
             THEN RuleLoopNoBreak(doc, i + 1,
                      [status |-> res.status,
                       autoApproved |-> res.autoApproved,
                       reason |-> res.reason,
                       appliedRules |-> Append(decision.appliedRules, getRules[i])],
                      seen)
             ELSE RuleLoopNoBreak(doc, i + 1, decision, seen)

\* The loop of evaluateRules if it added the name of every rule it evaluated
\* to appliedRules, matched or not
RECURSIVE RuleLoopNamesEvaluated(_, _, _, _)
RuleLoopNamesEvaluated(doc, i, decision, evaluated) ==
    IF i > Len(getRules) THEN [decision |-> decision, evaluated |-> evaluated]
    ELSE LET res == RuleEvaluate(i, doc)
             seen == Append(evaluated, getRules[i])
         IN  IF res.matched
             THEN LET d == [status |-> res.status,
                            autoApproved |-> res.autoApproved,
                            reason |-> res.reason,
                            appliedRules |-> seen]
                  IN  IF res.status = "needs-review"
                      THEN [decision |-> [d EXCEPT !.autoApproved = FALSE],
                            evaluated |-> seen]
                      ELSE RuleLoopNamesEvaluated(doc, i + 1, d, seen)
             ELSE RuleLoopNamesEvaluated(doc, i + 1,
                      [decision EXCEPT !.appliedRules = seen], seen)

\* The for loop of evaluateRules from rule i on.  evaluated lists the rules
\* whose evaluate was called, in call order.
RECURSIVE RuleLoop(_, _, _, _)
RuleLoop(doc, i, decision, evaluated) ==
    IF i > Len(getRules) THEN [decision |-> decision, evaluated |-> evaluated]
    ELSE LET res == RuleEvaluate(i, doc)
             seen == Append(evaluated, getRules[i])
         IN  IF res.matched
             THEN LET d == [status |-> res.status,
                            autoApproved |-> res.autoApproved,
                            reason |-> res.reason,
                            appliedRules |-> Append(decision.appliedRules, getRules[i])]
                  IN  IF res.status = "needs-review"
                      THEN [decision |-> [d EXCEPT !.autoApproved = FALSE],
                            evaluated |-> seen]
                      ELSE RuleLoop(doc, i + 1, d, seen)
             ELSE RuleLoop(doc, i + 1, decision, seen)

EvaluateTrace(document) == RuleLoop(document, 1, DefaultDecision, <<>>)

\* Workflow.evaluateRules
evaluateRules(document) == EvaluateTrace(document).decision

\* ---------------------------------------------------------------- Storage
\* Storage.initialize: the demo users
DefaultUsers ==
    << [id |-> "user_1", username |-> "admin", password |-> "admin123",
        role |-> "admin", email |-> "admin@docflow.ai", fullName |-> "Admin User"],
       [id |-> "user_2", username |-> "reviewer", password |-> "reviewer123",
        role |-> "reviewer", email |-> "reviewer@docflow.ai", fullName |-> "Reviewer User"],
       [id |-> "user_3", username |-> "user", password |-> "user123",
        role |-> "user", email |-> "user@docflow.ai", fullName |-> "Regular User"] >>

\* The cap of Storage.addAuditLog
MaxAuditLogs == 1000

\* Storage.set: the write is dropped when setItem throws (the error is
\* caught and false is returned).
StorageSet(old, new) == IF quotaExceeded THEN old ELSE new

\* Array.prototype.findIndex(d => d.id === id), 0 standing for -1
FindIndex(docs, id) ==
    IF \E i \in 1..Len(docs) : docs[i].id = id
    THEN CHOOSE i \in 1..Len(docs) :
            docs[i].id = id /\ \A j \in 1..(i - 1) : docs[j].id # id
    ELSE 0

\* getDocumentById falling back to the first stored document
getDocumentByIdOrFirst(docId) ==
    LET i == FindIndex(documents, docId)
    IN  IF i # 0 THEN <<documents[i]>>
        ELSE IF documents = <<>> THEN <<>> ELSE <<documents[1]>>

\* Storage.getDocumentById: <<>> for undefined, else <<document>>
getDocumentById(docId) ==
    LET i == FindIndex(documents, docId)
    IN  IF i = 0 THEN <<>> ELSE <<documents[i]>>

\* Storage.getUserById / getUserByUsername: <<>> for undefined
getUserById(userId) ==
    SelectSeq(users, LAMBDA u : u.id = userId)

getUserByUsername(username) ==
    SelectSeq(users, LAMBDA u : u.username = username)

\* Storage.addDocument: the stored array after the call
addDocument(document) ==
    LET newDoc == Spread(Spread([id |-> "doc_" \o ToString(clock)], document),
                         [createdAt |-> clock, updatedAt |-> clock])
    IN  StorageSet(documents, Append(documents, newDoc))

\* updateDocument replacing the stored document by the updates
updateDocumentDropsKeys(docId, updates) ==
    LET index == FindIndex(documents, docId)
    IN  IF index # 0
        THEN StorageSet(documents,
                 [documents EXCEPT ![index] =
                     Spread(Spread([id |-> documents[index].id], updates),
                            [updatedAt |-> clock])])
        ELSE documents

\* Storage.updateDocument between getDocuments and set: the array it builds
\* from the array docs it has read (docs itself when the id is not in it)
UpdatedDocuments(docs, docId, updates) ==
    LET index == FindIndex(docs, docId)
    IN  IF index # 0
        THEN [docs EXCEPT ![index] =
                 Spread(Spread(docs[index], updates), [updatedAt |-> clock])]
        ELSE docs

\* Storage.updateDocument: the stored array after the call
updateDocument(docId, updates) ==
    IF FindIndex(documents, docId) # 0
    THEN StorageSet(documents, UpdatedDocuments(documents, docId, updates))
    ELSE documents

\* addAuditLog cutting the log at its end instead of its start
addAuditLogDropsNewest(log) ==
    LET newLog == Spread([id |-> "log_" \o ToString(clock), timestamp |-> clock], log)
        pushed == Append(auditLogs, newLog)
        kept == IF Len(pushed) > MaxAuditLogs
                THEN SubSeq(pushed, 1, MaxAuditLogs)
                ELSE pushed
    IN  StorageSet(auditLogs, kept)

\* Storage.addAuditLog between getAuditLogs and set: the array it builds
\* from the array logs it has read
PushedLogs(logs, log) ==
    LET newLog == Spread([id |-> "log_" \o ToString(clock), timestamp |-> clock], log)
        pushed == Append(logs, newLog)
    IN  IF Len(pushed) > MaxAuditLogs
        THEN SubSeq(pushed, Len(pushed) - MaxAuditLogs + 1, Len(pushed))
        ELSE pushed

\* Storage.addAuditLog: the stored log after the call
addAuditLog(log) == StorageSet(auditLogs, PushedLogs(auditLogs, log))

\* ------------------------------------------------------------------ Audit
\* entry.key || fallback, for keys holding program texts
OrElseStr(entry, key, fallback) ==
    IF Has(entry, key) /\ TruthyStr(entry[key]) THEN entry[key] ELSE fallback

\* Audit.log leaving the details out of the stored entry
AuditLogNoDetails(session, entry) ==
    addAuditLog(
        [userId |-> OrElseStr(entry, "userId",
                              IF session # <<>> THEN session[1].id ELSE Null),
         userName |-> OrElseStr(entry, "userName",
                                IF session # <<>> THEN session[1].username ELSE "System"),
         action |-> entry.action,
         documentId |-> OrElseStr(entry, "documentId", Null),
         documentName |-> OrElseStr(entry, "documentName", Null),
         details |-> "",
         comments |-> IF Has(entry, "comments") /\ Truthy(entry.comments)
                      THEN entry.comments ELSE <<>>,
         metadata |-> IF Has(entry, "metadata") THEN entry.metadata ELSE EmptyObject])

\* The logEntry of Audit.log if the session came before the entry's own
\* userId and userName
LogEntrySessionFirst(session, entry) ==
    [userId |-> IF session # <<>> THEN session[1].id
                ELSE OrElseStr(entry, "userId", Null),
     userName |-> IF session # <<>> THEN session[1].username
                  ELSE OrElseStr(entry, "userName", "System"),
     action |-> entry.action,
     documentId |-> OrElseStr(entry, "documentId", Null),
     documentName |-> OrElseStr(entry, "documentName", Null),
     details |-> OrElseStr(entry, "details", ""),
     comments |-> IF Has(entry, "comments") /\ Truthy(entry.comments)
                  THEN entry.comments ELSE <<>>,
     metadata |-> IF Has(entry, "metadata") THEN entry.metadata ELSE EmptyObject]

\* The logEntry Audit.log builds, given the session Auth.getCurrentUser()
\* returns
LogEntry(session, entry) ==
    [userId |-> OrElseStr(entry, "userId",
                          IF session # <<>> THEN session[1].id ELSE Null),
     userName |-> OrElseStr(entry, "userName",
                            IF session # <<>> THEN session[1].username ELSE "System"),
     action |-> entry.action,
     documentId |-> OrElseStr(entry, "documentId", Null),
     documentName |-> OrElseStr(entry, "documentName", Null),
     details |-> OrElseStr(entry, "details", ""),
     comments |-> IF Has(entry, "comments") /\ Truthy(entry.comments)
                  THEN entry.comments ELSE <<>>,
     metadata |-> IF Has(entry, "metadata") THEN entry.metadata ELSE EmptyObject]

\* Audit.log given the session Auth.getCurrentUser() returns: the stored
\* log after the call
AuditLog(session, entry) == addAuditLog(LogEntry(session, entry))

\* Audit.Actions
Actions ==
    [AUTO_APPROVE |-> "auto_approve", FLAG_REVIEW |-> "flag_for_review",
     APPROVE |-> "approve", REJECT |-> "reject", SYSTEM_ERROR |-> "system_error"]

\* ------------------------------------------------------------ input sets
Text_x == <<"x">>
Amt_1200 == <<"$", "1", ",", "2", "0", "0">>
Amt_6000 == <<"$", "6", ",", "0", "0", "0">>
Amt_12000 == <<"$", "1", "2", ",", "0", "0", "0">>

InvoiceFields(amount) ==
    ("Invoice Number" :> Text_x) @@ ("Date" :> Text_x) @@ ("Amount" :> amount)

ContractFields(value) ==
    ("Contract Number" :> Text_x) @@ ("Parties" :> Text_x)
    @@ ("Effective Date" :> Text_x) @@ ("Value" :> value)

\* A document as the upload page hands it to Storage.addDocument
NewDoc(type, riskScore, fields) ==
    [name |-> "scan.png", type |-> type, status |-> "pending",
     extractedFields |-> fields, riskScore |-> riskScore]

NewDocs ==
    { NewDoc("invoice", 2, InvoiceFields(Amt_1200)),
      NewDoc("invoice", 5, InvoiceFields(Amt_1200)),
      NewDoc("invoice", 8, InvoiceFields(Amt_1200)),
      NewDoc("invoice", 2, InvoiceFields(Amt_12000)),
      NewDoc("invoice", 2, EmptyObject),
      NewDoc("contract", 5, ContractFields(Amt_6000)),
      NewDoc("contract", 7, ContractFields(Amt_1200)),
      NewDoc("contract", 10, ContractFields(Amt_12000)),
      NewDoc("contract", 9, EmptyObject) }

\* Ids no stored document has: Storage.addDocument never produces them
MissingIds == {"doc_0"}

\* The ids Storage.addDocument can have produced
DocIds == {"doc_" \o ToString(t) : t \in 1..MaxClock}

ReviewerIds == {"user_2", "user_9"}

CommentInputs == {<<>>, <<"o", "k">>}

ReasonInputs == {<<>>, <<" ", "\t">>, <<" ", "n", "o">>}

NoResult == [op |-> "none"]

\* The keys of Storage.KEYS
KEYS ==
    [USERS |-> "docflow_users", DOCUMENTS |-> "docflow_documents",
     AUDIT_LOGS |-> "docflow_audit_logs", CURRENT_USER |-> "docflow_current_user"]

\* A call that threw: its name, its arguments and the message of the Error.
Threw(op, documentId, args, message) ==
    [op |-> op, documentId |-> documentId, args |-> args,
     threw |-> TRUE, error |-> message]

\* A call that returned: its name, its arguments, the value returned and
\* the localStorage keys it wrote, in the order of the writes.
Returned(op, documentId, args, value, writes) ==
    [op |-> op, documentId |-> documentId, args |-> args,
     threw |-> FALSE, value |-> value, writes |-> writes]

\* --------------------------------------------------------------- actions
\* Storage.addDocument
AddDocument(document) ==
    /\ clock < MaxClock
    /\ Len(documents) < MaxDocs
    /\ documents' = addDocument(document)
    /\ clock' = clock + 1
    /\ result' = Returned("addDocument", "doc_" \o ToString(clock), <<document>>,
                          "newDoc", <<KEYS.DOCUMENTS>>)
    /\ UNCHANGED <<auditLogs, currentUser, quotaExceeded, evalDoc, evalOut,
                   users, nlpIn, nlpOut, calls, ocr>>

\* Workflow.processDocument, document missing
ProcessDocumentNotFound(documentId) ==
    /\ getDocumentById(documentId) = <<>>
    /\ result' = Threw("processDocument", documentId, <<>>, "Document not found")
    /\ UNCHANGED <<documents, auditLogs, currentUser, clock, quotaExceeded,
                   evalDoc, evalOut,
                   users, nlpIn, nlpOut, calls, ocr>>

\* Workflow.processDocument
ProcessDocument(documentId) ==
    /\ clock < MaxClock
    /\ getDocumentById(documentId) # <<>>
    /\ \E document \in {getDocumentById(documentId)[1]} :
       \E decision \in {evaluateRules(document)} :
           /\ documents' = updateDocument(documentId,
                               [status |-> decision.status,
                                autoApproved |-> decision.autoApproved,
                                workflowReason |-> decision.reason])
           /\ auditLogs' = AuditLog(currentUser,
                               [action |-> IF decision.autoApproved
                                           THEN Actions.AUTO_APPROVE
                                           ELSE Actions.FLAG_REVIEW,
                                documentId |-> document.id,
                                documentName |-> document.name,
                                details |-> decision.reason])
           /\ result' = Returned("processDocument", documentId, <<>>, decision,
                                <<KEYS.DOCUMENTS, KEYS.AUDIT_LOGS>>)
    /\ clock' = clock + 1
    /\ UNCHANGED <<currentUser, quotaExceeded, evalDoc, evalOut,
                   users, nlpIn, nlpOut, calls, ocr>>

\* Workflow.approveDocument, document missing
ApproveDocumentNotFound(documentId, reviewerId, comments) ==
    /\ getDocumentById(documentId) = <<>>
    /\ result' = Threw("approveDocument", documentId, <<reviewerId, comments>>,
                     "Document not found")
    /\ UNCHANGED <<documents, auditLogs, currentUser, clock, quotaExceeded,
                   evalDoc, evalOut,
                   users, nlpIn, nlpOut, calls, ocr>>

\* Workflow.approveDocument
ApproveDocument(documentId, reviewerId, comments) ==
    /\ clock < MaxClock
    /\ getDocumentById(documentId) # <<>>
    /\ \E document \in {getDocumentById(documentId)[1]} :
       \E reviewer \in {getUserById(reviewerId)} :
           /\ documents' = updateDocument(documentId,
                               [status |-> "approved",
                                reviewedBy |-> reviewerId,
                                reviewedAt |-> clock,
                                reviewComments |-> comments])
           /\ auditLogs' = AuditLog(currentUser,
                               [action |-> Actions.APPROVE,
                                userId |-> reviewerId,
                                userName |-> IF reviewer # <<>>
                                             THEN reviewer[1].username ELSE "Unknown",
                                documentId |-> document.id,
                                documentName |-> document.name,
                                details |-> "Document approved",
                                comments |-> comments])
    /\ result' = Returned("approveDocument", documentId, <<reviewerId, comments>>,
                          [success |-> TRUE, message |-> "Document approved successfully"],
                          <<KEYS.DOCUMENTS, KEYS.AUDIT_LOGS>>)
    /\ clock' = clock + 1
    /\ UNCHANGED <<currentUser, quotaExceeded, evalDoc, evalOut,
                   users, nlpIn, nlpOut, calls, ocr>>

\* Workflow.rejectDocument, document missing
RejectDocumentNotFound(documentId, reviewerId, reason) ==
    /\ getDocumentById(documentId) = <<>>
    /\ result' = Threw("rejectDocument", documentId, <<reviewerId, reason>>,
                     "Document not found")
    /\ UNCHANGED <<documents, auditLogs, currentUser, clock, quotaExceeded,
                   evalDoc, evalOut,
                   users, nlpIn, nlpOut, calls, ocr>>

\* The reason check without the trim
BlankReasonNoTrim(reason) == ~Truthy(reason)

\* !reason || reason.trim() === ''
BlankReason(reason) == ~Truthy(reason) \/ Trim(reason) = <<>>

\* Workflow.rejectDocument, blank reason
RejectDocumentNoReason(documentId, reviewerId, reason) ==
    /\ getDocumentById(documentId) # <<>>
    /\ BlankReason(reason)
    /\ result' = Threw("rejectDocument", documentId, <<reviewerId, reason>>,
                     "Rejection reason is required")
    /\ UNCHANGED <<documents, auditLogs, currentUser, clock, quotaExceeded,
                   evalDoc, evalOut,
                   users, nlpIn, nlpOut, calls, ocr>>

\* Workflow.rejectDocument
RejectDocument(documentId, reviewerId, reason) ==
    /\ clock < MaxClock
    /\ getDocumentById(documentId) # <<>>
    /\ ~BlankReason(reason)
    /\ \E document \in {getDocumentById(documentId)[1]} :
       \E reviewer \in {getUserById(reviewerId)} :
           /\ documents' = updateDocument(documentId,
                               [status |-> "rejected",
                                reviewedBy |-> reviewerId,
                                reviewedAt |-> clock,
                                rejectionReason |-> reason])
           /\ auditLogs' = AuditLog(currentUser,
                               [action |-> Actions.REJECT,
                                userId |-> reviewerId,
                                userName |-> IF reviewer # <<>>
                                             THEN reviewer[1].username ELSE "Unknown",
                                documentId |-> document.id,
                                documentName |-> document.name,
                                details |-> "Document rejected",
                                comments |-> reason])
    /\ result' = Returned("rejectDocument", documentId, <<reviewerId, reason>>,
                          [success |-> TRUE, message |-> "Document rejected"],
                          <<KEYS.DOCUMENTS, KEYS.AUDIT_LOGS>>)
    /\ clock' = clock + 1
    /\ UNCHANGED <<currentUser, quotaExceeded, evalDoc, evalOut,
                   users, nlpIn, nlpOut, calls, ocr>>

\* Auth.login.  With an unknown user or a wrong password it returns a failure
\* and leaves the store as it is: a stuttering step.
Login(username, password) ==
    /\ clock < MaxClock
    /\ getUserByUsername(username) # <<>>
    /\ LET user == getUserByUsername(username)[1]
           session == [id |-> user.id, username |-> user.username,
                       role |-> user.role, email |-> user.email,
                       fullName |-> user.fullName, loginTime |-> clock]
           stored == StorageSet(currentUser, <<session>>)
       IN  /\ user.password = password
           /\ currentUser' = stored
           /\ auditLogs' = AuditLog(stored,
                               [userId |-> user.id, action |-> "login",
                                details |-> "User " \o username \o " logged in as "
                                            \o user.role])
           /\ result' = Returned("login", Null, <<username>>, session.id,
                                <<KEYS.CURRENT_USER, KEYS.AUDIT_LOGS>>)
    /\ clock' = clock + 1
    /\ UNCHANGED <<documents, quotaExceeded, evalDoc, evalOut,
                   users, nlpIn, nlpOut, calls, ocr>>

\* Auth.logout.  Without a session it only removes the absent key.
Logout ==
    /\ clock < MaxClock
    /\ currentUser # <<>>
    /\ auditLogs' = AuditLog(currentUser,
                        [userId |-> currentUser[1].id, action |-> "logout",
                         details |-> "User " \o currentUser[1].username
                                     \o " logged out"])
    /\ currentUser' = <<>>
    /\ result' = Returned("logout", Null, <<>>, "index.html", <<KEYS.AUDIT_LOGS>>)
    /\ clock' = clock + 1
    /\ UNCHANGED <<documents, quotaExceeded, evalDoc, evalOut,
                   users, nlpIn, nlpOut, calls, ocr>>

Init ==
    /\ documents = <<>>
    /\ auditLogs = <<>>
    /\ currentUser = <<>>
    /\ clock = 1
    /\ result = NoResult
    /\ quotaExceeded = FALSE
    /\ evalDoc = EmptyObject
    /\ evalOut = <<>>
    /\ users = DefaultUsers
    /\ nlpIn = EmptyObject
    /\ nlpOut = <<>>
    /\ ocr = OCR
    /\ calls = <<>>

\* The failing paths read neither the reviewer nor the comments, so one
\* reviewer stands for all of them there.
Next ==
    \/ \E document \in NewDocs : AddDocument(document)
    \/ \E documentId \in DocIds : ProcessDocument(documentId)
    \/ \E documentId \in MissingIds : ProcessDocumentNotFound(documentId)
    \/ \E documentId \in DocIds, reviewerId \in ReviewerIds, comments \in CommentInputs :
          ApproveDocument(documentId, reviewerId, comments)
    \/ \E documentId \in MissingIds :
          ApproveDocumentNotFound(documentId, "user_2", <<>>)
    \/ \E documentId \in DocIds, reviewerId \in ReviewerIds, reason \in ReasonInputs :
          RejectDocument(documentId, reviewerId, reason)
    \/ \E documentId \in DocIds, reason \in ReasonInputs :
          RejectDocumentNoReason(documentId, "user_2", reason)
    \/ \E documentId \in MissingIds, reason \in ReasonInputs :
          RejectDocumentNotFound(documentId, "user_2", reason)
    \/ \E username \in {"reviewer", "nobody"}, password \in {"reviewer123", "x"} :
          Login(username, password)
    \/ Logout

Spec == Init /\ [][Next]_vars

\* ------------------------------------------------- a store that fills up
\* localStorage reaches its quota: from now on setItem throws.
StorageFills ==
    /\ ~quotaExceeded
    /\ quotaExceeded' = TRUE
    /\ UNCHANGED <<documents, auditLogs, currentUser, clock, result,
                   evalDoc, evalOut,
                   users, nlpIn, nlpOut, calls, ocr>>

\* Room is made in localStorage (another page of the origin removes data).
StorageFrees ==
    /\ quotaExceeded
    /\ quotaExceeded' = FALSE
    /\ UNCHANGED <<documents, auditLogs, currentUser, clock, result,
                   evalDoc, evalOut,
                   users, nlpIn, nlpOut, calls, ocr>>

QuotaDocs ==
    { NewDoc("invoice", 2, InvoiceFields(Amt_1200)),
      NewDoc("contract", 7, ContractFields(Amt_1200)) }

NextQuota ==
    \/ \E document \in QuotaDocs : AddDocument(document)
    \/ \E documentId \in DocIds : ProcessDocument(documentId)
    \/ \E documentId \in DocIds : ApproveDocument(documentId, "user_2", <<"o", "k">>)
    \/ \E documentId \in DocIds : RejectDocument(documentId, "user_2", <<" ", "n", "o">>)
    \/ StorageFills
    \/ StorageFrees

SpecQuota == Init /\ [][NextQuota]_vars

\* ---------------------------------------------- a log that is nearly full
\* Entries as a page hands them to Audit.log
LogEntries ==
    { [action |-> "upload", documentId |-> "doc_1", documentName |-> "scan.png",
       details |-> "Document uploaded"],
      [action |-> "view", userId |-> "user_3", userName |-> "user"],
      [action |-> "view", userId |-> "user_3"],
      [action |-> "export", userName |-> "auditor", id |-> "log_mine", timestamp |-> 0],
      [action |-> "export", userId |-> "", userName |-> ""] }

\* Audit.log called by a page
Log(entry) ==
    /\ clock < MaxClock
    /\ auditLogs' = AuditLog(currentUser, entry)
    /\ result' = Returned("log", Null, <<entry>>, "log_" \o ToString(clock),
                          <<KEYS.AUDIT_LOGS>>)
    /\ clock' = clock + 1
    /\ UNCHANGED <<documents, currentUser, quotaExceeded, evalDoc, evalOut,
                   users, nlpIn, nlpOut, calls, ocr>>

\* The log after n logins of the reviewer at the times 1 - n .. 0
PastLog(n) ==
    [i \in 1..n |->
        [id |-> "log_" \o ToString(i - n), timestamp |-> i - n,
         userId |-> "user_2", userName |-> "reviewer", action |-> "login",
         documentId |-> Null, documentName |-> Null,
         details |-> "User reviewer logged in as reviewer",
         comments |-> <<>>, metadata |-> EmptyObject]]

PastLens == {0, MaxAuditLogs - 2, MaxAuditLogs - 1, MaxAuditLogs}

InitAppend ==
    /\ documents = <<>>
    /\ auditLogs \in {PastLog(n) : n \in PastLens}
    /\ currentUser = <<>>
    /\ clock = 1
    /\ result = NoResult
    /\ quotaExceeded = FALSE
    /\ evalDoc = EmptyObject
    /\ evalOut = <<>>
    /\ users = DefaultUsers
    /\ nlpIn = EmptyObject
    /\ nlpOut = <<>>
    /\ ocr = OCR
    /\ calls = <<>>

NextAppend ==
    \/ \E entry \in LogEntries : Log(entry)
    \/ \E document \in QuotaDocs : AddDocument(document)
    \/ \E documentId \in DocIds : ProcessDocument(documentId)
    \/ Login("reviewer", "reviewer123")
    \/ Logout

SpecAppend == InitAppend /\ [][NextAppend]_vars

\* ------------------------------------- reading and replacing the store
\* logs.sort((a, b) => new Date(b.timestamp) - new Date(a.timestamp)): the
\* newest first, entries of one time in their order (the sort is stable)
RECURSIVE InsertByTimestamp(_, _)
InsertByTimestamp(sorted, log) ==
    IF sorted = <<>> THEN <<log>>
    ELSE IF Head(sorted).timestamp >= log.timestamp
         THEN <<Head(sorted)>> \o InsertByTimestamp(Tail(sorted), log)
         ELSE <<log>> \o sorted

RECURSIVE SortNewestFirst(_, _)
SortNewestFirst(logs, sorted) ==
    IF logs = <<>> THEN sorted
    ELSE SortNewestFirst(Tail(logs), InsertByTimestamp(sorted, Head(logs)))

\* stats.byAction, stats.byUser: how many logs have each value of the key
CountBy(logs, key) ==
    [v \in {logs[i][key] : i \in 1..Len(logs)} |->
        Cardinality({i \in 1..Len(logs) : logs[i][key] = v})]

\* Audit.getStatistics on the array Storage.get parsed from the stored item
AuditGetStatistics(logs) ==
    LET sorted == SortNewestFirst(logs, <<>>)
    IN  [totalLogs |-> Len(logs),
         byAction |-> CountBy(logs, "action"),
         byUser |-> CountBy(logs, "userName"),
         recentActivity |-> SubSeq(sorted, 1, IF Len(sorted) < 10 THEN Len(sorted) ELSE 10)]

\* Audit.getStatistics.  It sorts the array it read, not the stored item.
GetStatistics ==
    /\ result' = Returned("getStatistics", Null, <<>>, AuditGetStatistics(auditLogs), <<>>)
    /\ UNCHANGED <<documents, auditLogs, currentUser, clock, quotaExceeded,
                   evalDoc, evalOut, users, nlpIn, nlpOut, calls, ocr>>

\* The row array of Audit.exportToCSV for one log, before its fields are
\* quoted and joined
CsvRow(log) ==
    <<log.timestamp, log.userName, log.action,
      IF log.documentName \in {Null, ""} THEN "N/A" ELSE log.documentName,
      log.details, log.comments>>

\* Audit.exportToCSV: one row for each stored log
ExportToCSV ==
    /\ result' = Returned("exportToCSV", Null, <<>>,
                          [i \in 1..Len(auditLogs) |-> CsvRow(auditLogs[i])], <<>>)
    /\ UNCHANGED <<documents, auditLogs, currentUser, clock, quotaExceeded,
                   evalDoc, evalOut, users, nlpIn, nlpOut, calls, ocr>>

\* Storage.importData: each key the data has replaces the stored item
ImportData(data) ==
    /\ users' = IF Has(data, "users") THEN StorageSet(users, data.users) ELSE users
    /\ documents' = IF Has(data, "documents")
                    THEN StorageSet(documents, data.documents) ELSE documents
    /\ auditLogs' = IF Has(data, "auditLogs")
                    THEN StorageSet(auditLogs, data.auditLogs) ELSE auditLogs
    /\ result' = Returned("importData", Null, <<data>>, TRUE,
                          (IF Has(data, "users") THEN <<KEYS.USERS>> ELSE <<>>)
                          \o (IF Has(data, "documents") THEN <<KEYS.DOCUMENTS>> ELSE <<>>)
                          \o (IF Has(data, "auditLogs") THEN <<KEYS.AUDIT_LOGS>> ELSE <<>>))
    /\ UNCHANGED <<currentUser, clock, quotaExceeded, evalDoc, evalOut, nlpIn, nlpOut, calls, ocr>>

\* Storage.clear: localStorage.clear() removes every item
Clear ==
    /\ users' = <<>>
    /\ documents' = <<>>
    /\ auditLogs' = <<>>
    /\ currentUser' = <<>>
    /\ result' = Returned("clear", Null, <<>>, "undefined", <<>>)
    /\ UNCHANGED <<clock, quotaExceeded, evalDoc, evalOut, nlpIn, nlpOut, calls, ocr>>

\* Storage.initialize at the load of a page: the demo users are stored when
\* there is no users item (an absent item and an empty array are both <<>>)
Initialize ==
    /\ users = <<>>
    /\ users' = StorageSet(users, DefaultUsers)
    /\ result' = Returned("initialize", Null, <<>>, "undefined", <<KEYS.USERS>>)
    /\ UNCHANGED <<documents, auditLogs, currentUser, clock, quotaExceeded,
                   evalDoc, evalOut, nlpIn, nlpOut, calls, ocr>>

\* Data as Storage.exportData produced it from another store
ImportInputs ==
    { "auditLogs" :> <<>>,
      "auditLogs" :> PastLog(2),
      "auditLogs" :> <<PastLog(2)[2], PastLog(2)[1]>>,
      ("users" :> DefaultUsers) @@ ("documents" :> <<>>) }

NextStore ==
    \/ \E entry \in LogEntries : Log(entry)
    \/ \E document \in QuotaDocs : AddDocument(document)
    \/ \E documentId \in DocIds : ProcessDocument(documentId)
    \/ Login("reviewer", "reviewer123")
    \/ Logout
    \/ GetStatistics
    \/ ExportToCSV
    \/ \E data \in ImportInputs : ImportData(data)
    \/ Clear
    \/ Initialize

SpecStore == Init /\ [][NextStore]_vars

\* ------------------------------------------- evaluateRules as a function
Amt_0 == <<"0">>
Amt_500 == <<"$", "5", "0", "0">>
Amt_999_99 == <<"$", "9", "9", "9", ".", "9", "9">>
Amt_1000 == <<"$", "1", ",", "0", "0", "0">>
Amt_4999_99 == <<"$", "4", ",", "9", "9", "9", ".", "9", "9">>
Amt_5000 == <<"$", "5", ",", "0", "0", "0">>
Amt_9999_99 == <<"9", "9", "9", "9", ".", "9", "9">>
Amt_10000 == <<"$", "1", "0", ",", "0", "0", "0", ".", "0", "0">>
Amt_words == <<"n", "/", "a">>
Amt_negative == <<"-", "5", "0">>

EvalAmounts ==
    {Amt_0, Amt_500, Amt_999_99, Amt_1000, Amt_1200, Amt_4999_99, Amt_5000,
     Amt_6000, Amt_9999_99, Amt_10000, Amt_12000, Amt_words, Amt_negative}

\* The amount keys of a fields mapping: none, one of Amount, Value, Total,
\* or an empty or unreadable Amount beside a Value
AmountParts ==
    {EmptyObject}
    \cup { "Amount" :> a : a \in EvalAmounts }
    \cup { "Value" :> a : a \in {Amt_500, Amt_5000, Amt_12000} }
    \cup { "Total" :> a : a \in {Amt_999_99, Amt_10000} }
    \cup { ("Amount" :> <<>>) @@ ("Value" :> a) : a \in {Amt_1200, Amt_12000} }
    \cup { ("Amount" :> Amt_500) @@ ("Value" :> Amt_12000),
           ("Amount" :> Amt_words) @@ ("Value" :> Amt_12000),
           ("Amount" :> <<>>) }

OtherKeys ==
    {"Invoice Number", "Date", "Contract Number", "Parties", "Effective Date", "Email"}

\* The other keys: any subset of them with a text, or with an empty Date or
\* an empty Parties
OtherParts ==
    { [k \in ks |-> Text_x] : ks \in SUBSET OtherKeys }
    \cup { [k \in OtherKeys |-> IF k = e THEN <<>> ELSE Text_x] :
              e \in {"Date", "Parties"} }

EvalFields == { a @@ o : a \in AmountParts, o \in OtherParts }

EvalRiskScores == 0..10

\* Documents with and without a riskScore and extractedFields
EvalDocs ==
    { [type |-> t, riskScore |-> r, extractedFields |-> f] :
         t \in {"invoice", "contract"}, r \in EvalRiskScores, f \in EvalFields }
    \cup { [type |-> t, extractedFields |-> f] :
         t \in {"invoice", "contract"}, f \in EvalFields }
    \cup { [type |-> t, riskScore |-> r] :
         t \in {"invoice", "contract"}, r \in EvalRiskScores }
    \cup { [type |-> t] : t \in {"invoice", "contract"} }

InitRules ==
    /\ documents = <<>>
    /\ auditLogs = <<>>
    /\ currentUser = <<>>
    /\ clock = 1
    /\ result = NoResult
    /\ quotaExceeded = FALSE
    /\ evalDoc \in EvalDocs
    /\ evalOut = <<>>
    /\ users = DefaultUsers
    /\ nlpIn = EmptyObject
    /\ nlpOut = <<>>
    /\ ocr = OCR
    /\ calls = <<>>

\* Workflow.evaluateRules(evalDoc)
EvaluateRules ==
    /\ evalOut = <<>>
    /\ evalOut' = <<EvaluateTrace(evalDoc)>>
    /\ UNCHANGED <<documents, auditLogs, currentUser, clock, result,
                   quotaExceeded, evalDoc,
                   users, nlpIn, nlpOut, calls, ocr>>

NextRules == EvaluateRules

SpecRules == InitRules /\ [][NextRules]_vars

\* -------------------------------------------------------------------- NLP
Min(a, b) == IF a < b THEN a ELSE b

UpperCase == <<"A", "B", "C", "D", "E", "F", "G", "H", "I", "J", "K", "L", "M", "N", "O", "P", "Q", "R", "S", "T", "U", "V", "W", "X", "Y", "Z">>
LowerCase == <<"a", "b", "c", "d", "e", "f", "g", "h", "i", "j", "k", "l", "m", "n", "o", "p", "q", "r", "s", "t", "u", "v", "w", "x", "y", "z">>

\* String.prototype.toLowerCase
LowerChar(c) ==
    IF \E i \in 1..26 : UpperCase[i] = c
    THEN LowerCase[CHOOSE i \in 1..26 : UpperCase[i] = c]
    ELSE c

toLowerCase(text) == [i \in 1..Len(text) |-> LowerChar(text[i])]

\* String.prototype.includes
Includes(text, part) ==
    \E i \in 1..(Len(text) - Len(part) + 1) : SubSeq(text, i, i + Len(part) - 1) = part

highRiskKeywords ==
    <<
      <<"p", "e", "n", "a", "l", "t", "y">>,
      <<"t", "e", "r", "m", "i", "n", "a", "t", "i", "o", "n">>,
      <<"b", "r", "e", "a", "c", "h">>,
      <<"l", "i", "a", "b", "i", "l", "i", "t", "y">>,
      <<"l", "a", "w", "s", "u", "i", "t">>,
      <<"d", "i", "s", "p", "u", "t", "e">>,
      <<"o", "v", "e", "r", "d", "u", "e">>,
      <<"d", "e", "f", "a", "u", "l", "t">>,
      <<"c", "a", "n", "c", "e", "l">>,
      <<"v", "o", "i", "d">>
    >>

mediumRiskKeywords ==
    <<
      <<"a", "m", "e", "n", "d", "m", "e", "n", "t">>,
      <<"m", "o", "d", "i", "f", "i", "c", "a", "t", "i", "o", "n">>,
      <<"r", "e", "n", "e", "w", "a", "l">>,
      <<"e", "x", "t", "e", "n", "s", "i", "o", "n">>,
      <<"w", "a", "r", "n", "i", "n", "g">>,
      <<"n", "o", "t", "i", "c", "e">>,
      <<"u", "r", "g", "e", "n", "t">>,
      <<"i", "m", "m", "e", "d", "i", "a", "t", "e">>
    >>

\* amount > n for an integer n
NumGT(x, n) == x.num > n * x.den

\* calculateRiskScore without the cap at 10
calculateRiskScoreUncapped(text, fields) ==
    LET textLower == toLowerCase(text)
        highRiskCount ==
            Cardinality({k \in 1..Len(highRiskKeywords) :
                            Includes(textLower, highRiskKeywords[k])})
        mediumRiskCount ==
            Cardinality({k \in 1..Len(mediumRiskKeywords) :
                            Includes(textLower, mediumRiskKeywords[k])})
        amountStr == IF FieldTruthy(fields, "Amount") THEN fields["Amount"]
                     ELSE fields["Value"]
        amount == ParseFloat(StripCurrency(amountStr))
        amountPoints ==
            IF FieldTruthy(fields, "Amount") \/ FieldTruthy(fields, "Value")
            THEN IF amount.nan THEN 0
                 ELSE IF NumGT(amount, 10000) THEN 2
                 ELSE IF NumGT(amount, 5000) THEN 1
                 ELSE 0
            ELSE 0
        fieldsCount == Cardinality(DOMAIN fields)
        fewFieldsPoints ==
            IF fieldsCount = 0 THEN 3
            ELSE IF fieldsCount = 1 THEN 2
            ELSE IF fieldsCount = 2 THEN 1
            ELSE 0
    IN  Min(highRiskCount * 2, 6) + Min(mediumRiskCount, 3)
        + amountPoints + fewFieldsPoints

\* calculateRiskScore adding 2 from 10000 on and 1 from 5000 on
calculateRiskScoreFromThreshold(text, fields) ==
    LET textLower == toLowerCase(text)
        highRiskCount ==
            Cardinality({k \in 1..Len(highRiskKeywords) :
                            Includes(textLower, highRiskKeywords[k])})
        mediumRiskCount ==
            Cardinality({k \in 1..Len(mediumRiskKeywords) :
                            Includes(textLower, mediumRiskKeywords[k])})
        amountStr == IF FieldTruthy(fields, "Amount") THEN fields["Amount"]
                     ELSE fields["Value"]
        amount == ParseFloat(StripCurrency(amountStr))
        amountPoints ==
            IF FieldTruthy(fields, "Amount") \/ FieldTruthy(fields, "Value")
            THEN IF amount.nan THEN 0
                 ELSE IF NumGE(amount, 10000) THEN 2
                 ELSE IF NumGE(amount, 5000) THEN 1
                 ELSE 0
            ELSE 0
        fieldsCount == Cardinality(DOMAIN fields)
        fewFieldsPoints ==
            IF fieldsCount = 0 THEN 3
            ELSE IF fieldsCount = 1 THEN 2
            ELSE IF fieldsCount = 2 THEN 1
            ELSE 0
    IN  Min(10, Min(highRiskCount * 2, 6) + Min(mediumRiskCount, 3)
                + amountPoints + fewFieldsPoints)

\* NLP.calculateRiskScore
calculateRiskScore(text, fields) ==
    LET textLower == toLowerCase(text)
        highRiskCount ==
            Cardinality({k \in 1..Len(highRiskKeywords) :
                            Includes(textLower, highRiskKeywords[k])})
        mediumRiskCount ==
            Cardinality({k \in 1..Len(mediumRiskKeywords) :
                            Includes(textLower, mediumRiskKeywords[k])})
        amountStr == IF FieldTruthy(fields, "Amount") THEN fields["Amount"]
                     ELSE fields["Value"]
        amount == ParseFloat(StripCurrency(amountStr))
        amountPoints ==
            IF FieldTruthy(fields, "Amount") \/ FieldTruthy(fields, "Value")
            THEN IF amount.nan THEN 0
                 ELSE IF NumGT(amount, 10000) THEN 2
                 ELSE IF NumGT(amount, 5000) THEN 1
                 ELSE 0
            ELSE 0
        fieldsCount == Cardinality(DOMAIN fields)
        fewFieldsPoints ==
            IF fieldsCount = 0 THEN 3
            ELSE IF fieldsCount = 1 THEN 2
            ELSE IF fieldsCount = 2 THEN 1
            ELSE 0
    IN  Min(10, Min(highRiskCount * 2, 6) + Min(mediumRiskCount, 3)
                + amountPoints + fewFieldsPoints)

\* ------------------------------------------------- NLP: field extraction
\* The elements of a sequence
Range(seq) == {seq[i] : i \in 1..Len(seq)}

Letters == Range(UpperCase) \cup Range(LowerCase)

\* \w
WordChars == Letters \cup DigitChars \cup {"_"}

\* const v = value; body is written Only({ body : v \in {value} }): the
\* value is computed once and then named
Only(set) == CHOOSE r \in set : TRUE

Least(set) == CHOOSE k \in set : \A other \in set : k <= other

Greatest(set) == CHOOSE k \in set : \A other \in set : other <= k

\* The length of the longest run of characters of the class that starts at
\* position i: what a greedy class* consumes there.
Run(text, i, class) ==
    IF i > Len(text) THEN 0
    ELSE Only({ Least({n \in 0..(Len(text) + 1 - i) :
                i + n > Len(text) \/ text[i + n] \notin chars})
                : chars \in {class} })

\* The literal word stands at position i; the second form ignores case (the
\* word is given in lower case).
StartsWith(text, i, word) ==
    /\ i + Len(word) - 1 <= Len(text)
    /\ \A j \in 1..Len(word) : text[i + j - 1] = word[j]

StartsWithIgnoringCase(text, i, word) ==
    /\ i + Len(word) - 1 <= Len(text)
    /\ \A j \in 1..Len(word) : LowerChar(text[i + j - 1]) = word[j]

\* \b at position i: exactly one of the characters before and at i is a
\* word character.
WordBoundary(text, i) ==
    (i > 1 /\ text[i - 1] \in WordChars) # (i <= Len(text) /\ text[i] \in WordChars)

\* A match: end is the position after its last character (0: no match), and
\* from..(upto - 1) is what is taken from it: its first group, or all of it
\* when the code takes the whole match.
NoMatchAt == [end |-> 0, from |-> 0, upto |-> 0]

Taken(text, m) == SubSeq(text, m.from, m.upto - 1)

\* The least of the positions where a pattern matches, 0 if there is none:
\* the position at which exec or match finds its next match.
FirstAt(positions) ==
    Only({ IF found = {} THEN 0 ELSE Least(found)
           : found \in {positions} })

CurrencyWords == { <<"U", "S", "D">>, <<"E", "U", "R">>, <<"G", "B", "P">> }

\* /(?:\$|USD|EUR|GBP)\s*([0-9,]+\.?[0-9]*)/ tried at position i.  Every
\* quantifier is greedy and what follows it is optional or of another class,
\* so the first attempt is the only one.
AmountAt(text, i) ==
    Only({ IF marker = 0 THEN NoMatchAt
           ELSE Only({ Only({ IF dot = from THEN NoMatchAt
                       ELSE Only({ Only({ [end |-> upto, from |-> from, upto |-> upto]
                                   : upto \in {rest + Run(text, rest, DigitChars)} })
                                   : rest \in {IF dot <= Len(text) /\ text[dot] = "." THEN dot + 1 ELSE dot} })
                       : dot \in {from + Run(text, from, DigitChars \cup {","})} })
                       : from \in {i + marker + Run(text, i + marker, Whitespace)} })
           : marker \in {IF text[i] = "$" THEN 1 ELSE IF \E w \in CurrencyWords : StartsWith(text, i, w) THEN 3 ELSE 0} })

\* while ((match = amountPattern.exec(text)) !== null) amounts.push(match[1])
RECURSIVE AmountMatches(_, _)
AmountMatches(text, start) ==
    Only({ IF i = 0 THEN <<>>
           ELSE Only({ <<Taken(text, m)>> \o AmountMatches(text, m.end)
                       : m \in {AmountAt(text, i)} })
           : i \in {FirstAt({i \in start..Len(text) : AmountAt(text, i).end # 0})} })

\* parseFloat(a.replace(/,/g, ''))
AmountValue(a) == ParseFloat(SelectSeq(a, LAMBDA c : c # ","))

\* The amounts, each with the number the comparator reads from it
Parsed(amounts) ==
    [i \in 1..Len(amounts) |-> [text |-> amounts[i], value |-> AmountValue(amounts[i])]]

\* x - y < 0 for numbers that are not NaN
NumLess(x, y) == x.num * y.den < y.num * x.den

\* The comparator (a, b) => value(b) - value(a) as sort uses it: a negative
\* result puts a before b; NaN counts as 0.
ComesBefore(a, b) ==
    /\ ~a.value.nan
    /\ ~b.value.nan
    /\ NumLess(b.value, a.value)

\* A stable sort by the comparator
RECURSIVE InsertAmount(_, _)
InsertAmount(sorted, a) ==
    IF sorted = <<>> THEN <<a>>
    ELSE IF ComesBefore(a, Head(sorted)) THEN <<a>> \o sorted
    ELSE <<Head(sorted)>> \o InsertAmount(Tail(sorted), a)

RECURSIVE StableSortAmounts(_, _)
StableSortAmounts(amounts, sorted) ==
    IF amounts = <<>> THEN sorted
    ELSE StableSortAmounts(Tail(amounts), InsertAmount(sorted, Head(amounts)))

\* "Neither comes before the other"
Tied(a, b) == ~ComesBefore(a, b) /\ ~ComesBefore(b, a)

\* The comparator is consistent when being tied is transitive.  With an
\* amount that is not a number (NaN compares as equal to everything) beside
\* two different numbers it is not.
ConsistentComparator(amounts) ==
    \A i, j, k \in 1..Len(amounts) :
        Tied(amounts[i], amounts[j]) /\ Tied(amounts[j], amounts[k])
        => Tied(amounts[i], amounts[k])

\* The orders of the array
Orderings(amounts) ==
    { [i \in 1..Len(amounts) |-> amounts[p[i]]] :
        p \in { q \in [1..Len(amounts) -> 1..Len(amounts)] :
                  \A i, j \in 1..Len(amounts) : i # j => q[i] # q[j] } }

\* amounts.sort(comparator): the arrays it can leave.  With a consistent
\* comparator the stable sort; otherwise the order is implementation-defined
\* (ECMAScript, Array.prototype.sort).
SortOutcomes(amounts) ==
    Only({ { [i \in 1..Len(sorted) |-> sorted[i].text] :
           sorted \in IF ConsistentComparator(parsed)
                      THEN {StableSortAmounts(parsed, <<>>)}
                      ELSE Orderings(parsed) }
           : parsed \in {Parsed(amounts)} })

\* /(?:invoice|inv)[\s#:-]*([A-Z0-9-]+)/i and
\* /(?:contract|agreement)[\s#:-]*([A-Z0-9-]+)/i: the class of the
\* separators and the class of the captured identifier (with the flag i the
\* range A-Z holds the small letters too)
SeparatorChars == Whitespace \cup {"#", ":", "-"}

IdentifierChars == Letters \cup DigitChars \cup {"-"}

\* The rest of such a pattern tried at position p, right after the label.
\* The separators are taken greedily and given back one by one until an
\* identifier character follows (only "-" is in both classes); the
\* identifier is then the whole run.
IdentifierAfter(text, p) ==
    Only({ IF starts = {} THEN NoMatchAt
           ELSE Only({ Only({ [end |-> upto, from |-> from, upto |-> upto]
                       : upto \in {from + Run(text, from, IdentifierChars)} })
                       : from \in {p + Greatest(starts)} })
           : starts \in {{k \in 0..Run(text, p, SeparatorChars) : p + k <= Len(text) /\ text[p + k] \in IdentifierChars}} })

\* The pattern tried at position i: the labels are the alternatives in
\* their order, and a later one is tried when the rest fails after an
\* earlier one.
LabelledAt(text, i, labels) ==
    Only({ IF ok = {} THEN NoMatchAt
           ELSE IdentifierAfter(text, i + Len(labels[Least(ok)]))
           : ok \in {{l \in 1..Len(labels) : /\ StartsWithIgnoringCase(text, i, labels[l]) /\ IdentifierAfter(text, i + Len(labels[l])).end # 0}} })

InvoiceLabels == <<<<"i", "n", "v", "o", "i", "c", "e">>, <<"i", "n", "v">>>>

ContractLabels == <<<<"c", "o", "n", "t", "r", "a", "c", "t">>, <<"a", "g", "r", "e", "e", "m", "e", "n", "t">>>>

invoicePatternAt(text, i) == LabelledAt(text, i, InvoiceLabels)

contractPatternAt(text, i) == LabelledAt(text, i, ContractLabels)

\* \b\d{1,2}[\/\-]\d{1,2}[\/\-]\d{2,4}\b tried at position i.  A run of
\* digits has to be taken whole: the character after \d{1,2} must be a
\* separator, and the \b after \d{2,4} fails between two digits.
NumericDateAt(text, i) ==
    IF ~(WordBoundary(text, i) /\ text[i] \in DigitChars) THEN NoMatchAt
    ELSE Only({ Only({ Only({ IF /\ s1 - i \in 1..2
                   /\ s1 <= Len(text) /\ text[s1] \in {"/", "-"}
                   /\ s2 - (s1 + 1) \in 1..2
                   /\ s2 <= Len(text) /\ text[s2] \in {"/", "-"}
                   /\ end - (s2 + 1) \in 2..4
                   /\ WordBoundary(text, end)
                THEN [end |-> end, from |-> i, upto |-> end]
                ELSE NoMatchAt
                : end \in {s2 + 1 + Run(text, s2 + 1, DigitChars)} })
                : s2 \in {s1 + 1 + Run(text, s1 + 1, DigitChars)} })
                : s1 \in {i + Run(text, i, DigitChars)} })

MonthNames ==
    { <<"j", "a", "n">>, <<"f", "e", "b">>, <<"m", "a", "r">>, <<"a", "p", "r">>, <<"m", "a", "y">>, <<"j", "u", "n">>,
      <<"j", "u", "l">>, <<"a", "u", "g">>, <<"s", "e", "p">>, <<"o", "c", "t">>, <<"n", "o", "v">>, <<"d", "e", "c">> }

\* \b(?:Jan|...|Dec)[a-z]*\s+\d{1,2},?\s+\d{4}\b tried at position i (flag
\* i).  Here too every run is taken whole: after the letters white space
\* must follow, after it a digit, after the day a comma or white space, and
\* after the four digits of the year no word character.
MonthDateAt(text, i) ==
    IF ~(/\ WordBoundary(text, i)
         /\ i + 2 <= Len(text)
         /\ toLowerCase(SubSeq(text, i, i + 2)) \in MonthNames) THEN NoMatchAt
    ELSE Only({ Only({ Only({ Only({ Only({ IF /\ day > w1
                   /\ comma - day \in 1..2
                   /\ year > w2
                   /\ Run(text, year, DigitChars) = 4
                   /\ WordBoundary(text, year + 4)
                THEN [end |-> year + 4, from |-> i, upto |-> year + 4]
                ELSE NoMatchAt
                : year \in {w2 + Run(text, w2, Whitespace)} })
                : w2 \in {IF comma <= Len(text) /\ text[comma] = "," THEN comma + 1 ELSE comma} })
                : comma \in {day + Run(text, day, DigitChars)} })
                : day \in {w1 + Run(text, w1, Whitespace)} })
                : w1 \in {i + 3 + Run(text, i + 3, Letters)} })

\* datePattern: the numeric form or else the month form
datePatternAt(text, i) ==
    Only({ IF numeric.end # 0 THEN numeric ELSE MonthDateAt(text, i)
           : numeric \in {NumericDateAt(text, i)} })

\* text.match(datePattern) with the flag g: the matches from left to right
\* (the empty sequence for null)
RECURSIVE DateMatches(_, _)
DateMatches(text, start) ==
    Only({ IF i = 0 THEN <<>>
           ELSE Only({ <<Taken(text, m)>> \o DateMatches(text, m.end)
                       : m \in {datePatternAt(text, i)} })
           : i \in {FirstAt({i \in start..Len(text) : datePatternAt(text, i).end # 0})} })

TermUnits == <<<<"y", "e", "a", "r">>, <<"m", "o", "n", "t", "h">>, <<"d", "a", "y">>>>

\* /(\d+)\s*(year|month|day)s?/i tried at position i: from..(upto - 1) is
\* the number, from2..(upto2 - 1) the unit
termPatternAt(text, i) ==
    IF text[i] \notin DigitChars THEN NoMatchAt @@ [from2 |-> 0, upto2 |-> 0]
    ELSE Only({ Only({ Only({ IF names = {} THEN NoMatchAt @@ [from2 |-> 0, upto2 |-> 0]
                ELSE Only({ [end |-> IF upto2 <= Len(text) /\ text[upto2] \in {"s", "S"}
                                    THEN upto2 + 1 ELSE upto2,
                            from |-> i, upto |-> upto, from2 |-> unit, upto2 |-> upto2]
                            : upto2 \in {unit + Len(TermUnits[Least(names)])} })
                : names \in {{u \in 1..Len(TermUnits) : StartsWithIgnoringCase(text, unit, TermUnits[u])}} })
                : unit \in {upto + Run(text, upto, Whitespace)} })
                : upto \in {i + Run(text, i, DigitChars)} })

\* `${termMatch[1]} ${termMatch[2]}${parseInt(termMatch[1]) > 1 ? 's' : ''}`
TermText(text, m) ==
    Only({ number \o <<" ">> \o SubSeq(text, m.from2, m.upto2 - 1)
           \o (IF DigitsValue(number, 0) > 1 THEN <<"s">> ELSE <<>>)
           : number \in {Taken(text, m)} })

\* /([a-zA-Z0-9._-]+@[a-zA-Z0-9._-]+\.[a-zA-Z0-9_-]+)/ tried at position i.
\* The domain run holds its dots, so it is given back to the last dot that
\* a character of the final class follows.
EmailChars == Letters \cup DigitChars \cup {".", "_", "-"}

EmailEndChars == Letters \cup DigitChars \cup {"_", "-"}

emailPatternAt(text, i) ==
    IF text[i] \notin EmailChars THEN NoMatchAt
    ELSE
    Only({ IF at > Len(text) \/ text[at] # "@" THEN NoMatchAt
           ELSE Only({ IF dots = {} THEN NoMatchAt
                       ELSE Only({ Only({ [end |-> end, from |-> i, upto |-> end]
                                   : end \in {last + Run(text, last, EmailEndChars)} })
                                   : last \in {at + 2 + Greatest(dots)} })
                       : dots \in {{d \in 1..(Run(text, at + 1, EmailChars) - 1) : /\ text[at + 1 + d] = "." /\ at + 2 + d <= Len(text) /\ text[at + 2 + d] \in EmailEndChars}} })
           : at \in {i + Run(text, i, EmailChars)} })

\* /(\+?[0-9]{1,3}[-.\s]?)?(\(?[0-9]{3}\)?[-.\s]?)?[0-9]{3}[-.\s]?[0-9]{4}/
\* tried at position i.  Every quantifier is bounded, so there are finitely
\* many ways to match, and backtracking tries them in a fixed order: an
\* optional part first present, then absent; three digits before two before
\* one; a later choice changes before an earlier one.  In these operators a
\* position 0 stands for "does not match".
PhoneSeparators == {"-", "."} \cup Whitespace

\* class? taken (present) or skipped, from position p on
OptionalChar(text, p, class, present) ==
    IF p = 0 \/ ~present THEN p
    ELSE IF p <= Len(text) /\ text[p] \in class THEN p + 1
    ELSE 0

\* [0-9]{n} from position p on
Digits(text, p, n) ==
    IF p # 0 /\ p + n - 1 <= Len(text) /\ \A j \in p..(p + n - 1) : text[j] \in DigitChars
    THEN p + n
    ELSE 0

\* The k-th of the thirteen ways to match (\+?[0-9]{1,3}[-.\s]?)? from p
\* on, the last one being the group left out
CountryCode(text, p, k) ==
    IF k = 13 THEN p
    ELSE Only({ Only({ OptionalChar(text, separator, PhoneSeparators, (k - 1) % 2 = 0)
                : separator \in {Digits(text, digits, 3 - (((k - 1) % 6) \div 2))} })
                : digits \in {OptionalChar(text, p, {"+"}, (k - 1) \div 6 = 0)} })

\* The k-th of the nine ways to match (\(?[0-9]{3}\)?[-.\s]?)? from p on,
\* the last one being the group left out
AreaCode(text, p, k) ==
    IF k = 9 THEN p
    ELSE Only({ Only({ Only({ OptionalChar(text, separator, PhoneSeparators, (k - 1) % 2 = 0)
                : separator \in {OptionalChar(text, close, {")"}, ((k - 1) % 4) \div 2 = 0)} })
                : close \in {Digits(text, digits, 3)} })
                : digits \in {OptionalChar(text, p, {"("}, (k - 1) \div 4 = 0)} })

\* [0-9]{3}[-.\s]?[0-9]{4} from p on: with the separator, or else without
LineNumber(text, p) ==
    Only({ Only({ Only({ IF end # 0 THEN end ELSE Digits(text, separator, 4)
           : end \in {Digits(text, last, 4)} })
           : last \in {OptionalChar(text, separator, PhoneSeparators, TRUE)} })
           : separator \in {Digits(text, p, 3)} })

\* The ways to match the area code that let the line number match from p on
AreaCodes(text, p) ==
    {a \in 1..9 : \E q \in {AreaCode(text, p, a)} : q # 0 /\ LineNumber(text, q) # 0}

\* The ways to match the country code that let the rest match
CountryCodes(text, i) ==
    {c \in 1..13 : \E p \in {CountryCode(text, i, c)} : p # 0 /\ AreaCodes(text, p) # {}}

phonePatternAt(text, i) ==
    IF text[i] \notin DigitChars \cup {"+", "("} THEN NoMatchAt
    ELSE Only({ IF countryCodes = {} THEN NoMatchAt
                ELSE Only({ Only({ Only({ [end |-> end, from |-> i, upto |-> end]
                            : end \in {LineNumber(text, q)} })
                            : q \in {AreaCode(text, p, Least(AreaCodes(text, p)))} })
                            : p \in {CountryCode(text, i, Least(countryCodes))} })
                : countryCodes \in {CountryCodes(text, i)} })

\* fields[key] = value when the pattern matched
Field(key, present, value) == IF present THEN key :> value ELSE EmptyObject

\* What compromise.js finds in a text is an input here: doc.people is
\* doc.match('#Person').out('array') and doc.orgs is
\* doc.match('#Organization').out('array').

\* NLP.extractInvoiceFields(text, doc) when amounts.sort(...) leaves the
\* amounts in the order sorted
InvoiceFieldsSorted(text, doc, sorted) ==
    Only({ Field("Invoice Number", invoiceMatch # 0,
                 Taken(text, invoicePatternAt(text, invoiceMatch)))
           @@ Field("Date", Len(dateMatches) > 0, dateMatches[1])
           @@ Field("Amount", Len(sorted) > 0, <<"$">> \o sorted[1])
           @@ Field("Email", email # 0, Taken(text, emailPatternAt(text, email)))
           @@ Field("Phone", phone # 0, Taken(text, phonePatternAt(text, phone)))
           @@ Field("Vendor", Len(doc.orgs) > 0, doc.orgs[1])
           : invoiceMatch \in {FirstAt({i \in 1..Len(text) : invoicePatternAt(text, i).end # 0})},
             dateMatches \in {DateMatches(text, 1)},
             email \in {FirstAt({i \in 1..Len(text) : emailPatternAt(text, i).end # 0})},
             phone \in {FirstAt({i \in 1..Len(text) : phonePatternAt(text, i).end # 0})} })

\* NLP.extractInvoiceFields(text, doc): the mappings it can return, one for
\* each order the sort can leave the amounts in
extractInvoiceFields(text, doc) ==
    Only({ { InvoiceFieldsSorted(text, doc, sorted) : sorted \in SortOutcomes(amounts) }
           : amounts \in {AmountMatches(text, 1)} })

\* extractContractFields if it also set the key Parties, to the people found
extractContractFieldsWithParties(text, doc) ==
    Only({ Field("Contract Number", contractMatch # 0,
                 Taken(text, contractPatternAt(text, contractMatch)))
           @@ Field("Parties", Len(doc.people) > 0, doc.people[1])
           @@ Field("Party 1", Len(doc.people) > 0, doc.people[1])
           @@ Field("Party 2", Len(doc.people) > 1, doc.people[2])
           @@ Field("Company", Len(doc.orgs) > 0, doc.orgs[1])
           @@ Field("Effective Date", Len(dateMatches) > 0, dateMatches[1])
           @@ Field("Expiration Date", Len(dateMatches) > 1, dateMatches[2])
           @@ Field("Term", termMatch # 0, TermText(text, termPatternAt(text, termMatch)))
           @@ Field("Value", Len(amounts) > 0, <<"$">> \o amounts[1])
           : contractMatch \in {FirstAt({i \in 1..Len(text) : contractPatternAt(text, i).end # 0})},
             dateMatches \in {DateMatches(text, 1)},
             termMatch \in {FirstAt({i \in 1..Len(text) : termPatternAt(text, i).end # 0})},
             amounts \in {AmountMatches(text, 1)} })

\* NLP.extractContractFields(text, doc)
extractContractFields(text, doc) ==
    Only({ Field("Contract Number", contractMatch # 0,
                 Taken(text, contractPatternAt(text, contractMatch)))
           @@ Field("Party 1", Len(doc.people) > 0, doc.people[1])
           @@ Field("Party 2", Len(doc.people) > 1, doc.people[2])
           @@ Field("Company", Len(doc.orgs) > 0, doc.orgs[1])
           @@ Field("Effective Date", Len(dateMatches) > 0, dateMatches[1])
           @@ Field("Expiration Date", Len(dateMatches) > 1, dateMatches[2])
           @@ Field("Term", termMatch # 0, TermText(text, termPatternAt(text, termMatch)))
           @@ Field("Value", Len(amounts) > 0, <<"$">> \o amounts[1])
           : contractMatch \in {FirstAt({i \in 1..Len(text) : contractPatternAt(text, i).end # 0})},
             dateMatches \in {DateMatches(text, 1)},
             termMatch \in {FirstAt({i \in 1..Len(text) : termPatternAt(text, i).end # 0})},
             amounts \in {AmountMatches(text, 1)} })

\* analyzeDocument if it computed the risk score before the fields were
\* extracted
analyzeDocumentScoresFirst(text, documentType, doc) ==
    { [fields |-> fields, riskScore |-> calculateRiskScore(text, EmptyObject)] :
          fields \in IF documentType = "invoice" THEN extractInvoiceFields(text, doc)
                     ELSE IF documentType = "contract"
                          THEN {extractContractFields(text, doc)}
                          ELSE {EmptyObject} }

\* NLP.analyzeDocument(text, documentType) once nlp(text) gave doc: the
\* analyses it can return.  The summary and the keywords, which are made of
\* what compromise.js returns, are left out.
analyzeDocument(text, documentType, doc) ==
    { [fields |-> fields, riskScore |-> calculateRiskScore(text, fields)] :
          fields \in IF documentType = "invoice" THEN extractInvoiceFields(text, doc)
                     ELSE IF documentType = "contract"
                          THEN {extractContractFields(text, doc)}
                          ELSE {EmptyObject} }

\* ------------------------------------------- calculateRiskScore as a function
\* Words of a scanned text: risk keywords in several spellings and inside
\* longer words, and a keyword twice
RiskWords ==
    <<
      <<"P", "e", "n", "a", "l", "t", "y">>,
      <<"B", "R", "E", "A", "C", "H">>,
      <<"a", "v", "o", "i", "d">>,
      <<"C", "a", "n", "c", "e", "l", "l", "a", "t", "i", "o", "n">>,
      <<"p", "e", "n", "a", "l", "t", "y">>,
      <<"n", "o", "t", "i", "c", "e">>,
      <<"R", "e", "n", "e", "w", "a", "l">>,
      <<"U", "R", "G", "E", "N", "T">>,
      <<"e", "x", "t", "e", "n", "s", "i", "o", "n">>
    >>

\* The words with the given positions, in order, each followed by a blank
RECURSIVE WordsText(_, _)
WordsText(picked, i) ==
    IF i > Len(RiskWords) THEN <<>>
    ELSE (IF i \in picked THEN RiskWords[i] \o <<" ">> ELSE <<>>)
         \o WordsText(picked, i + 1)

RiskTexts == { WordsText(picked, 1) : picked \in SUBSET (1..Len(RiskWords)) }

Amt_5000_01 == <<"$", "5", ",", "0", "0", "0", ".", "0", "1">>
Amt_10000_01 == <<"$", "1", "0", ",", "0", "0", "0", ".", "0", "1">>
Amt_commas == <<"$", ",">>

\* Fields mappings as the extractors build them, with 0, 1, 2 and more keys
RiskFields ==
    { EmptyObject,
      "Amount" :> Amt_500,
      "Value" :> Amt_12000,
      "Date" :> Text_x,
      ("Amount" :> Amt_5000) @@ ("Date" :> Text_x),
      ("Amount" :> Amt_5000_01) @@ ("Date" :> Text_x),
      ("Value" :> Amt_10000) @@ ("Contract Number" :> Text_x),
      ("Value" :> Amt_10000_01) @@ ("Contract Number" :> Text_x),
      ("Amount" :> Amt_500) @@ ("Value" :> Amt_12000),
      ("Amount" :> Amt_commas) @@ ("Value" :> Amt_12000),
      ("Amount" :> Amt_commas) @@ ("Date" :> Text_x) @@ ("Email" :> Text_x),
      InvoiceFields(Amt_1200),
      InvoiceFields(Amt_6000),
      InvoiceFields(Amt_12000),
      ("Contract Number" :> Text_x) @@ ("Party 1" :> Text_x) @@ ("Term" :> Text_x) }

MaxCalls == 2

InitRisk ==
    /\ documents = <<>>
    /\ auditLogs = <<>>
    /\ currentUser = <<>>
    /\ clock = 1
    /\ result = NoResult
    /\ quotaExceeded = FALSE
    /\ evalDoc = EmptyObject
    /\ evalOut = <<>>
    /\ users = DefaultUsers
    /\ nlpIn \in { [text |-> t, fields |-> f] : t \in RiskTexts, f \in RiskFields }
    /\ nlpOut = <<>>
    /\ ocr = OCR
    /\ calls = <<>>

\* NLP.calculateRiskScore(text, fields), called again with the same arguments
CalculateRiskScore ==
    /\ Len(nlpOut) < MaxCalls
    /\ nlpOut' = Append(nlpOut, calculateRiskScore(nlpIn.text, nlpIn.fields))
    /\ UNCHANGED <<documents, auditLogs, currentUser, clock, result, quotaExceeded,
                   evalDoc, evalOut, users, nlpIn, calls, ocr>>

NextRisk == CalculateRiskScore

SpecRisk == InitRisk /\ [][NextRisk]_vars

\* ------------------------------------------------ from a text to a decision
\* Pieces of the text of a scanned invoice: the label, a date in both
\* forms, amounts (one of them a currency code before a comma, which the
\* amount pattern takes for an amount) and a risk keyword
InvoicePieces ==
    { <<>>,
      <<"I", "n", "v", "o", "i", "c", "e", " ", "I", "N", "V", "-", "7">>,
      <<"0", "1", "/", "1", "5", "/", "2", "0", "2", "4">>,
      <<"M", "a", "r", " ", "3", ",", " ", "2", "0", "2", "5">>,
      <<"$", "5", "0", "0">>,
      <<"$", "1", "2", ",", "0", "0", "0">>,
      <<"U", "S", "D", ",">>,
      <<"$", "4", ",", "9", "9", "9", ".", "9", "9">>,
      <<"p", "e", "n", "a", "l", "t", "y">> }

\* Pieces of the text of a scanned contract
ContractPieces ==
    { <<>>,
      <<"C", "o", "n", "t", "r", "a", "c", "t", " ", "C", "-", "9">>,
      <<"0", "1", "/", "1", "5", "/", "2", "0", "2", "4">>,
      <<"M", "a", "r", " ", "3", ",", " ", "2", "0", "2", "5">>,
      <<"$", "5", "0", "0">>,
      <<"$", "1", "2", ",", "0", "0", "0">>,
      <<"p", "e", "n", "a", "l", "t", "y">>,
      <<"3", " ", "y", "e", "a", "r", "s">> }

\* The texts of up to three of the pieces, each followed by a blank
Texts(pieces) ==
    { (IF a = <<>> THEN <<>> ELSE a \o <<" ">>)
      \o (IF b = <<>> THEN <<>> ELSE b \o <<" ">>)
      \o (IF c = <<>> THEN <<>> ELSE c \o <<" ">>) :
          a \in pieces, b \in pieces, c \in pieces }

\* What compromise.js finds: nothing, or two people and an organization
NlpDocs ==
    { [people |-> <<>>, orgs |-> <<>>],
      [people |-> <<<<"A", "n", "n">>, <<"B", "o", "b">>>>, orgs |-> <<<<"A", "c", "m", "e">>>>] }

\* The text of a scan, the type chosen for it, and nlp(text): <<>> when the
\* library is not loaded
PipelineInputs ==
    LET scans == { [text |-> t, documentType |-> "invoice"] : t \in Texts(InvoicePieces) }
                 \cup { [text |-> t, documentType |-> "contract"] :
                            t \in Texts(ContractPieces) }
    IN  { [text |-> s.text, documentType |-> s.documentType, doc |-> <<n>>] :
              s \in scans, n \in NlpDocs }
        \cup { [text |-> <<>>, documentType |-> ty, doc |-> <<>>] :
                   ty \in {"invoice", "contract"} }

InitPipeline ==
    /\ documents = <<>>
    /\ auditLogs = <<>>
    /\ currentUser = <<>>
    /\ clock = 1
    /\ result = NoResult
    /\ quotaExceeded = FALSE
    /\ evalDoc = EmptyObject
    /\ evalOut = <<>>
    /\ users = DefaultUsers
    /\ nlpIn \in PipelineInputs
    /\ nlpOut = <<>>
    /\ ocr = OCR
    /\ calls = <<>>

\* The document the caller of the pipeline stores for a scan: its type, its
\* raw text, and the fields and the risk score of the analysis
ScannedDocument(input, analysis) ==
    [name |-> "scan.png", type |-> input.documentType, status |-> "pending",
     rawText |-> input.text, extractedFields |-> analysis.fields,
     riskScore |-> analysis.riskScore]

\* The caller of the pipeline takes a scan in: NLP.analyzeDocument, then
\* Storage.addDocument
UploadDocument ==
    /\ nlpOut = <<>>
    /\ nlpIn.doc # <<>>
    /\ clock < MaxClock
    /\ Len(documents) < MaxDocs
    /\ \E analysis \in analyzeDocument(nlpIn.text, nlpIn.documentType, nlpIn.doc[1]) :
       \E document \in {ScannedDocument(nlpIn, analysis)} :
           /\ nlpOut' = <<analysis>>
           /\ documents' = addDocument(document)
           /\ result' = Returned("addDocument", "doc_" \o ToString(clock), <<document>>,
                                 "newDoc", <<KEYS.DOCUMENTS>>)
    /\ clock' = clock + 1
    /\ UNCHANGED <<auditLogs, currentUser, quotaExceeded, evalDoc, evalOut,
                   users, nlpIn, calls, ocr>>

\* NLP.analyzeDocument throws when compromise.js is not loaded, and nothing
\* is stored
UploadDocumentFails ==
    /\ nlpIn.doc = <<>>
    /\ result.op = "none"
    /\ result' = Threw("analyzeDocument", Null, <<>>,
                       "NLP library (compromise.js) is not loaded")
    /\ UNCHANGED <<documents, auditLogs, currentUser, clock, quotaExceeded,
                   evalDoc, evalOut, users, nlpIn, nlpOut, calls, ocr>>

NextPipeline ==
    \/ UploadDocument
    \/ UploadDocumentFails
    \/ \E documentId \in DocIds : ProcessDocument(documentId)

SpecPipeline == InitPipeline /\ [][NextPipeline]_vars

\* -------------------------------------------- two pages sharing the store
\* Two pages of one browser profile share localStorage.  Each runs a
\* handler of Workflow on the same document; a handler is a sequence of reads
\* (getItem) and writes (setItem) of the store, and the reads and writes of
\* the two pages interleave.  Both calls fall into one tick of the clock.

\* The updates the handler passes to Storage.updateDocument
CallUpdates(call) ==
    IF call.op = "processDocument"
    THEN [status |-> call.decision[1].status,
          autoApproved |-> call.decision[1].autoApproved,
          workflowReason |-> call.decision[1].reason]
    ELSE IF call.op = "approveDocument"
    THEN [status |-> "approved", reviewedBy |-> call.reviewerId,
          reviewedAt |-> clock, reviewComments |-> call.text]
    ELSE [status |-> "rejected", reviewedBy |-> call.reviewerId,
          reviewedAt |-> clock, rejectionReason |-> call.text]

\* The entry the handler passes to Audit.log
CallEntry(call) ==
    IF call.op = "processDocument"
    THEN [action |-> IF call.decision[1].autoApproved
                     THEN Actions.AUTO_APPROVE ELSE Actions.FLAG_REVIEW,
          documentId |-> call.document[1].id,
          documentName |-> call.document[1].name,
          details |-> call.decision[1].reason]
    ELSE [action |-> IF call.op = "approveDocument"
                     THEN Actions.APPROVE ELSE Actions.REJECT,
          userId |-> call.reviewerId,
          userName |-> IF getUserById(call.reviewerId) # <<>>
                       THEN getUserById(call.reviewerId)[1].username ELSE "Unknown",
          documentId |-> call.document[1].id,
          documentName |-> call.document[1].name,
          details |-> IF call.op = "approveDocument"
                      THEN "Document approved" ELSE "Document rejected",
          comments |-> call.text]

\* A call that has not started: at is the position of the page in the
\* handler; document, docs and logs are what it has read so far, decision is
\* what processDocument got from evaluateRules for the document it read, and
\* before is the store at the time of the call.
NewCall(op, documentId, reviewerId, text, store) ==
    [op |-> op, documentId |-> documentId, reviewerId |-> reviewerId, text |-> text,
     at |-> "getDocumentById", document |-> <<>>, decision |-> <<>>,
     docs |-> <<>>, logs |-> <<>>, before |-> store]

\* The stores the two calls find: one document, as Storage.addDocument
\* stored it at time 1, and an empty log
RaceStores ==
    { [documents |-> <<Spread(Spread([id |-> "doc_1"], d),
                              [createdAt |-> 1, updatedAt |-> 1])>>,
       auditLogs |-> <<>>] :
          d \in { NewDoc("invoice", 2, InvoiceFields(Amt_1200)),
                  NewDoc("invoice", 8, InvoiceFields(Amt_1200)),
                  NewDoc("contract", 5, ContractFields(Amt_6000)) } }

RaceCalls(store) ==
    { NewCall("processDocument", "doc_1", Null, <<>>, store),
      NewCall("approveDocument", "doc_1", "user_2", <<"o", "k">>, store),
      NewCall("rejectDocument", "doc_1", "user_2", <<" ", "n", "o">>, store) }

InitRace ==
    /\ \E store \in RaceStores :
           /\ documents = store.documents
           /\ auditLogs = store.auditLogs
           /\ calls \in { <<a, b>> : a \in RaceCalls(store), b \in RaceCalls(store) }
    /\ currentUser = <<>>
    /\ clock = 2
    /\ result = NoResult
    /\ quotaExceeded = FALSE
    /\ evalDoc = EmptyObject
    /\ evalOut = <<>>
    /\ users = DefaultUsers
    /\ nlpIn = EmptyObject
    /\ nlpOut = <<>>
    /\ ocr = OCR

\* Storage.getDocumentById at the start of the handler, which throws when
\* the document is missing; processDocument then computes its decision
RaceGetDocumentById(p) ==
    /\ calls[p].at = "getDocumentById"
    /\ \E document \in {getDocumentById(calls[p].documentId)} :
           calls' = [calls EXCEPT
                        ![p].document = document,
                        ![p].decision =
                            IF document # <<>> /\ calls[p].op = "processDocument"
                            THEN <<evaluateRules(document[1])>> ELSE <<>>,
                        ![p].at = IF document = <<>> THEN "thrown" ELSE "getDocuments"]
    /\ UNCHANGED <<documents, auditLogs, currentUser, clock, result, quotaExceeded,
                   evalDoc, evalOut, users, nlpIn, nlpOut, ocr>>

\* Storage.updateDocument: const documents = this.getDocuments()
RaceGetDocuments(p) ==
    /\ calls[p].at = "getDocuments"
    /\ calls' = [calls EXCEPT ![p].docs = documents, ![p].at = "setDocuments"]
    /\ UNCHANGED <<documents, auditLogs, currentUser, clock, result, quotaExceeded,
                   evalDoc, evalOut, users, nlpIn, nlpOut, ocr>>

\* Storage.updateDocument: this.set(this.KEYS.DOCUMENTS, documents), when
\* the id was found in the array read
RaceSetDocuments(p) ==
    /\ calls[p].at = "setDocuments"
    /\ documents' = IF FindIndex(calls[p].docs, calls[p].documentId) # 0
                    THEN StorageSet(documents,
                             UpdatedDocuments(calls[p].docs, calls[p].documentId,
                                              CallUpdates(calls[p])))
                    ELSE documents
    /\ calls' = [calls EXCEPT ![p].at = "getAuditLogs"]
    /\ UNCHANGED <<auditLogs, currentUser, clock, result, quotaExceeded,
                   evalDoc, evalOut, users, nlpIn, nlpOut, ocr>>

\* Audit.log up to Storage.addAuditLog: const logs = this.getAuditLogs()
RaceGetAuditLogs(p) ==
    /\ calls[p].at = "getAuditLogs"
    /\ calls' = [calls EXCEPT ![p].logs = auditLogs, ![p].at = "setAuditLogs"]
    /\ UNCHANGED <<documents, auditLogs, currentUser, clock, result, quotaExceeded,
                   evalDoc, evalOut, users, nlpIn, nlpOut, ocr>>

\* Storage.addAuditLog: this.set(this.KEYS.AUDIT_LOGS, logs), and the
\* handler returns
RaceSetAuditLogs(p) ==
    /\ calls[p].at = "setAuditLogs"
    /\ auditLogs' = StorageSet(auditLogs,
                        PushedLogs(calls[p].logs,
                                   LogEntry(currentUser, CallEntry(calls[p]))))
    /\ calls' = [calls EXCEPT ![p].at = "returned"]
    /\ UNCHANGED <<documents, currentUser, clock, result, quotaExceeded,
                   evalDoc, evalOut, users, nlpIn, nlpOut, ocr>>

NextRace ==
    \/ \E p \in 1..2 : RaceGetDocumentById(p)
    \/ \E p \in 1..2 : RaceGetDocuments(p)
    \/ \E p \in 1..2 : RaceSetDocuments(p)
    \/ \E p \in 1..2 : RaceGetAuditLogs(p)
    \/ \E p \in 1..2 : RaceSetAuditLogs(p)

SpecRace == InitRace /\ [][NextRace]_vars

\* ===================================================================
\* Properties
\* ===================================================================

\* The rule conditions as the specification states them.
HighRiskCond(d) == Has(d, "riskScore") /\ d.riskScore >= 7

LargeAmountCond(d) == NumGE(_extractAmount(d), 10000)

PresentField(d, key) ==
    /\ Has(d, "extractedFields")
    /\ key \in DOMAIN d.extractedFields
    /\ Len(d.extractedFields[key]) > 0

MissingFieldsCond(d) ==
    IF d.type = "invoice"
    THEN \E key \in {"Invoice Number", "Amount", "Date"} : ~PresentField(d, key)
    ELSE \E key \in {"Contract Number", "Parties", "Effective Date"} : ~PresentField(d, key)

ModerateRiskCond(d) ==
    /\ Has(d, "riskScore")
    /\ d.riskScore \in 4..6
    /\ NumGE(_extractAmount(d), 5000)

AnyReviewCond(d) ==
    HighRiskCond(d) \/ LargeAmountCond(d) \/ MissingFieldsCond(d) \/ ModerateRiskCond(d)

KeyCount(d) ==
    IF Has(d, "extractedFields") THEN Cardinality(DOMAIN d.extractedFields) ELSE 0

AutoApproveCond(d) ==
    /\ Has(d, "riskScore")
    /\ d.riskScore <= 3
    /\ NumLT(_extractAmount(d), 5000)
    /\ \/ KeyCount(d) >= 2
       \/ NumLT(_extractAmount(d), 1000) /\ KeyCount(d) >= 1

\* The position in the fixed order of the first review rule that matches.
FirstReviewRule(d) ==
    IF HighRiskCond(d) THEN 1
    ELSE IF LargeAmountCond(d) THEN 2
    ELSE IF MissingFieldsCond(d) THEN 3
    ELSE 4

FixedOrder ==
    <<"High Risk Review", "Large Amount Review", "Missing Fields Review",
      "Moderate Risk Review", "Auto Approve Simple Documents">>

\* The stored document with the given id.
StoredDoc(docs, id) == docs[CHOOSE i \in 1..Len(docs) : docs[i].id = id]

IsStored(docs, id) == \E i \in 1..Len(docs) : docs[i].id = id

Processed == result.op = "processDocument" /\ ~result.threw

\* C1: a stored document with riskScore >= 7, whatever its type, fields and
\* amount, gets from processDocument a decision with status needs-review and
\* autoApproved = false, and that status and flag are persisted on it.
C1_HighRiskNeedsReview ==
    Processed =>
        LET d == StoredDoc(documents, result.documentId)
        IN  (Has(d, "riskScore") /\ d.riskScore >= 7) =>
                /\ result.value.status = "needs-review"
                /\ result.value.autoApproved = FALSE
                /\ d.status = "needs-review"
                /\ Has(d, "autoApproved")
                /\ d.autoApproved = FALSE

\* A high-risk invoice that is complete and small has been processed.
C1_Witness ==
    /\ Processed
    /\ LET d == StoredDoc(documents, result.documentId)
       IN  /\ d.riskScore = 8
           /\ d.extractedFields = InvoiceFields(Amt_1200)
           /\ d.status = "needs-review"

\* C2: evaluateRules evaluates the rules in the fixed order and stops at the
\* first rule whose result is needs-review: when one of the four review rules
\* matches, that rule is the last one evaluated and the decision is
\* needs-review with autoApproved = false, even if the Auto Approve condition
\* holds too; when none matches, all five rules are evaluated.
C2_StopsAtFirstReview ==
    evalOut # <<>> =>
        LET t == evalOut[1]
        IN  /\ t.evaluated = SubSeq(FixedOrder, 1, Len(t.evaluated))
            /\ AnyReviewCond(evalDoc) =>
                  /\ Len(t.evaluated) = FirstReviewRule(evalDoc)
                  /\ t.decision.status = "needs-review"
                  /\ t.decision.autoApproved = FALSE
            /\ ~AnyReviewCond(evalDoc) => Len(t.evaluated) = 5

\* A document that meets the Auto Approve condition and misses a critical
\* field has been evaluated.
C2_Witness ==
    /\ evalOut # <<>>
    /\ AutoApproveCond(evalDoc)
    /\ MissingFieldsCond(evalDoc)
    /\ evalOut[1].decision.status = "needs-review"
    /\ Len(evalOut[1].evaluated) = 3

C4_DefaultDecision ==
    (evalOut # <<>> /\ ~AnyReviewCond(evalDoc) /\ ~AutoApproveCond(evalDoc)) =>
        evalOut[1].decision =
            [status |-> "needs-review", autoApproved |-> FALSE,
             reason |-> "Document requires manual review",
             appliedRules |-> <<>>]

\* A complete document with riskScore in 4..6 and an amount below 5000 has
\* been given the default decision.
C4_Witness ==
    /\ evalOut # <<>>
    /\ Has(evalDoc, "riskScore")
    /\ evalDoc.riskScore \in 4..6
    /\ ~MissingFieldsCond(evalDoc)
    /\ NumLT(_extractAmount(evalDoc), 5000)
    /\ evalOut[1].decision.appliedRules = <<>>
    /\ evalOut[1].decision.reason = "Document requires manual review"

\* A text that is empty or holds white space only.
IsBlank(text) == \A i \in 1..Len(text) : text[i] \in {" ", "\t", "\n"}

\* C5: rejectDocument on a stored document with an empty or white-space-only
\* reason fails with the validation error and changes nothing: the documents
\* and the audit log are the same as before the call.
C5_BlankReasonRejected ==
    [][ ( /\ result'.op = "rejectDocument"
          /\ IsStored(documents, result'.documentId)
          /\ IsBlank(result'.args[2]) )
        => /\ result'.threw
           /\ result'.error = "Rejection reason is required"
           /\ documents' = documents
           /\ auditLogs' = auditLogs ]_vars

\* A white-space-only reason has been refused for a stored document.
C5_Witness ==
    /\ result.op = "rejectDocument"
    /\ result.threw
    /\ result.error = "Rejection reason is required"
    /\ result.args[2] = <<" ", "\t">>
    /\ IsStored(documents, result.documentId)
    /\ StoredDoc(documents, result.documentId).status = "needs-review"

\* C6: approved and rejected are terminal: no call changes the status of a
\* document whose persisted status is approved or rejected.
C6_TerminalStatus ==
    [][ \A i \in 1..Len(documents) :
            documents[i].status \in {"approved", "rejected"}
            => documents'[i].status = documents[i].status ]_vars

\* C7: a document whose autoApproved flag is true has status approved and no
\* reviewer.
C7_AutoApprovedMeansUnreviewed ==
    \A i \in 1..Len(documents) :
        (Has(documents[i], "autoApproved") /\ documents[i].autoApproved = TRUE)
        => /\ documents[i].status = "approved"
           /\ ~Has(documents[i], "reviewedBy")

RuleEngineKeys == {"status", "autoApproved", "workflowReason", "updatedAt"}

\* C8: processDocument changes only status, autoApproved, workflowReason and
\* updatedAt of its document: every other key of it (id, type,
\* extractedFields, riskScore, reviewedBy, reviewedAt, reviewComments,
\* rejectionReason) is as before, present or absent, and so is every other
\* stored document.
C8_ProcessFrame ==
    [][ (result'.op = "processDocument" /\ ~result'.threw)
        => /\ Len(documents') = Len(documents)
           /\ \A i \in 1..Len(documents) :
                 IF documents[i].id = result'.documentId
                 THEN \A k \in (DOMAIN documents[i] \cup DOMAIN documents'[i])
                                  \ RuleEngineKeys :
                         /\ k \in DOMAIN documents[i]
                         /\ k \in DOMAIN documents'[i]
                         /\ documents'[i][k] = documents[i][k]
                 ELSE documents'[i] = documents[i] ]_vars

\* A document that a reviewer had handled has been processed again.
C8_Witness ==
    /\ Processed
    /\ Has(StoredDoc(documents, result.documentId), "reviewedBy")
    /\ Has(StoredDoc(documents, result.documentId), "rejectionReason")

\* C9: a successful processDocument appends exactly one audit entry, for the
\* processed document, written after the document update; its action is
\* auto_approve when the decision has autoApproved = true and
\* flag_for_review otherwise, and its details are the decision's reason.
C9_ProcessAudited ==
    [][ (result'.op = "processDocument" /\ ~result'.threw)
        => /\ Len(auditLogs') = Len(auditLogs) + 1
           /\ SubSeq(auditLogs', 1, Len(auditLogs)) = auditLogs
           /\ LET e == auditLogs'[Len(auditLogs')]
              IN  /\ e.documentId = result'.documentId
                  /\ e.action = IF result'.value.autoApproved
                                THEN "auto_approve" ELSE "flag_for_review"
                  /\ e.details = result'.value.reason
           /\ result'.writes = <<"docflow_documents", "docflow_audit_logs">> ]_vars

\* An auto-approval has been logged.
C9_Witness ==
    /\ Processed
    /\ result.value.autoApproved
    /\ auditLogs[Len(auditLogs)].action = "auto_approve"
    /\ auditLogs[Len(auditLogs)].documentId = result.documentId

\* C10: processDocument, approveDocument and rejectDocument with an id no
\* stored document has fail with the not-found error and leave the stored
\* documents as they are.
C10_NotFound ==
    [][ ( /\ result'.op \in {"processDocument", "approveDocument", "rejectDocument"}
          /\ ~IsStored(documents, result'.documentId) )
        => /\ result'.threw
           /\ result'.error = "Document not found"
           /\ documents' = documents ]_vars

\* rejectDocument has failed for an unknown id while documents are stored.
C10_Witness ==
    /\ result.op = "rejectDocument"
    /\ result.threw
    /\ result.error = "Document not found"
    /\ Len(documents) >= 1
    /\ ~IsStored(documents, result.documentId)

\* C11: every call that fails (document not found in processDocument,
\* approveDocument or rejectDocument, blank reason in rejectDocument) appends
\* one audit entry with action system_error before the error reaches the
\* caller.
C11_ErrorsLogged ==
    [][ result'.threw
        => /\ Len(auditLogs') = Len(auditLogs) + 1
           /\ auditLogs'[Len(auditLogs')].action = "system_error" ]_vars

\* C12: when the storage writes fail, processDocument, approveDocument and
\* rejectDocument do not return a decision or a success result: the call
\* ends in an error.
C12_WriteFailureSurfaces ==
    [][ ( /\ quotaExceeded
          /\ clock' # clock
          /\ result'.op \in {"processDocument", "approveDocument", "rejectDocument"} )
        => result'.threw ]_vars

\* The call of this step wrote the audit log.
WroteAuditLog(res) ==
    /\ ~res.threw
    /\ \E i \in 1..Len(res.writes) : res.writes[i] = "docflow_audit_logs"

\* C13: the stored log never holds more than 1000 entries, and an append
\* leaves the most recent min(n, 1000) entries in append order: below the
\* cap the log grows by the new entry, at the cap the oldest entry and only
\* that one is dropped.
C13_CappedFifo ==
    [][ /\ Len(auditLogs) <= 1000
        /\ Len(auditLogs') <= 1000
        /\ (clock' # clock /\ WroteAuditLog(result'))
             => LET e == auditLogs'[Len(auditLogs')]
                IN  /\ e.timestamp = clock
                    /\ auditLogs' = IF Len(auditLogs) < 1000
                                    THEN Append(auditLogs, e)
                                    ELSE Append(Tail(auditLogs), e)
                    /\ \A i \in 1..(Len(auditLogs') - 1) :
                          auditLogs'[i].timestamp < auditLogs'[i + 1].timestamp ]_vars

\* The log is full, its oldest entry is gone and its newest one is from a
\* call of this run.
C13_Witness ==
    /\ Len(auditLogs) = 1000
    /\ auditLogs[1].timestamp > 0 - 999
    /\ auditLogs[1000].timestamp >= 1

\* C14: the audit log is append-only: a step of any operation leaves the
\* stored log as it is or appends one entry to it, dropping the oldest entry
\* only when the log held 1000 entries; no stored entry is changed, moved or
\* removed otherwise.
C14_AppendOnly ==
    [][ \/ auditLogs' = auditLogs
        \/ /\ Len(auditLogs') > 0
           /\ \/ auditLogs' = Append(auditLogs, auditLogs'[Len(auditLogs')])
              \/ /\ Len(auditLogs) = 1000
                 /\ auditLogs' = Append(Tail(auditLogs), auditLogs'[Len(auditLogs')]) ]_vars

HighRiskTerms ==
    {
      <<"p", "e", "n", "a", "l", "t", "y">>,
      <<"t", "e", "r", "m", "i", "n", "a", "t", "i", "o", "n">>,
      <<"b", "r", "e", "a", "c", "h">>,
      <<"l", "i", "a", "b", "i", "l", "i", "t", "y">>,
      <<"l", "a", "w", "s", "u", "i", "t">>,
      <<"d", "i", "s", "p", "u", "t", "e">>,
      <<"o", "v", "e", "r", "d", "u", "e">>,
      <<"d", "e", "f", "a", "u", "l", "t">>,
      <<"c", "a", "n", "c", "e", "l">>,
      <<"v", "o", "i", "d">>
    }

MediumRiskTerms ==
    {
      <<"a", "m", "e", "n", "d", "m", "e", "n", "t">>,
      <<"m", "o", "d", "i", "f", "i", "c", "a", "t", "i", "o", "n">>,
      <<"r", "e", "n", "e", "w", "a", "l">>,
      <<"e", "x", "t", "e", "n", "s", "i", "o", "n">>,
      <<"w", "a", "r", "n", "i", "n", "g">>,
      <<"n", "o", "t", "i", "c", "e">>,
      <<"u", "r", "g", "e", "n", "t">>,
      <<"i", "m", "m", "e", "d", "i", "a", "t", "e">>
    }

\* A case-insensitive occurrence of the term in the text.
OccursIn(text, term) ==
    \E i \in 1..Len(text) :
        /\ i + Len(term) - 1 <= Len(text)
        /\ \A j \in 1..Len(term) : LowerChar(text[i + j - 1]) = term[j]

TermsPresent(text, terms) == Cardinality({t \in terms : OccursIn(text, t)})

AmountContribution(fields) ==
    IF ~Has(fields, "Amount") /\ ~Has(fields, "Value") THEN 0
    ELSE LET a == ParseFloat(StripCurrency(IF Has(fields, "Amount")
                                           THEN fields["Amount"] ELSE fields["Value"]))
         IN  IF a.nan THEN 0
             ELSE IF a.num > 10000 * a.den THEN 2
             ELSE IF a.num > 5000 * a.den THEN 1
             ELSE 0

SparsityPenalty(fields) ==
    LET n == Cardinality(DOMAIN fields)
    IN  IF n >= 3 THEN 0 ELSE 3 - n

Clamp(n) == IF n < 0 THEN 0 ELSE IF n > 10 THEN 10 ELSE n

ScoreBySpec(text, fields) ==
    LET h == TermsPresent(text, HighRiskTerms)
        m == TermsPresent(text, MediumRiskTerms)
    IN  Clamp((IF 2 * h < 6 THEN 2 * h ELSE 6) + (IF m < 3 THEN m ELSE 3)
              + AmountContribution(fields) + SparsityPenalty(fields))

\* C16: calculateRiskScore is the sum, clamped to 0..10, of min(2h, 6) for h
\* distinct high-risk keywords present, min(m, 3) for m distinct medium-risk
\* keywords present, 2 for a canonical amount (Amount before Value) above
\* 10000, 1 for one above 5000 and at most 10000, 0 otherwise or when it is
\* absent or not a number, and 3, 2, 1, 0 for 0, 1, 2, 3 or more fields.
C16_RiskScoreFormula ==
    \A i \in 1..Len(nlpOut) :
        nlpOut[i] = ScoreBySpec(nlpIn.text, nlpIn.fields)

\* A text with two high-risk keywords and one medium-risk keyword, an amount
\* just above 5000 and two fields has been given the score 4 + 1 + 1 + 1.
C16_Witness ==
    /\ nlpOut # <<>>
    /\ nlpOut[1] = 7
    /\ TermsPresent(nlpIn.text, HighRiskTerms) = 2
    /\ TermsPresent(nlpIn.text, MediumRiskTerms) = 1
    /\ AmountContribution(nlpIn.fields) = 1
    /\ SparsityPenalty(nlpIn.fields) = 1

\* C17: for a document of type invoice or contract with an empty
\* extractedFields mapping and any riskScore from 0 to 10, the rule Missing
\* Fields Review matches and evaluateRules returns needs-review.
C17_EmptyFieldsNeedReview ==
    ( /\ evalOut # <<>>
      /\ Has(evalDoc, "riskScore")
      /\ Has(evalDoc, "extractedFields")
      /\ DOMAIN evalDoc.extractedFields = {} )
    => /\ MissingFieldsReview(evalDoc).matched
       /\ evalOut[1].decision.status = "needs-review"
       /\ evalOut[1].decision.autoApproved = FALSE

\* A contract with risk score 0 and no field has been sent to review by
\* Missing Fields Review.
C17_Witness ==
    /\ evalOut # <<>>
    /\ evalDoc.type = "contract"
    /\ Has(evalDoc, "riskScore")
    /\ evalDoc.riskScore = 0
    /\ Has(evalDoc, "extractedFields")
    /\ DOMAIN evalDoc.extractedFields = {}
    /\ evalOut[1].decision.appliedRules = <<"Missing Fields Review">>

\* The keys extractContractFields can set, as the specification lists them
ContractFieldNames ==
    {"Contract Number", "Party 1", "Party 2", "Company", "Effective Date",
     "Expiration Date", "Term", "Value"}

\* C18: a stored contract whose extractedFields come from
\* extractContractFields has none but the eight keys (never "Parties"), so
\* evaluateRules gives it needs-review whatever its risk score and value, and
\* processDocument never auto-approves it.
C18_ContractsNeverAutoApproved ==
    /\ \A i \in 1..Len(documents) :
           documents[i].type = "contract"
           => /\ DOMAIN documents[i].extractedFields \subseteq ContractFieldNames
              /\ evaluateRules(documents[i]).status = "needs-review"
              /\ ~evaluateRules(documents[i]).autoApproved
    /\ (Processed /\ StoredDoc(documents, result.documentId).type = "contract")
       => /\ result.value.status = "needs-review"
          /\ result.value.autoApproved = FALSE
          /\ StoredDoc(documents, result.documentId).status = "needs-review"
          /\ StoredDoc(documents, result.documentId).autoApproved = FALSE

\* A contract with its number, both parties, the company, the effective date
\* and a value of $500, and risk score 0, has been processed: only Missing
\* Fields Review kept it from approval.
C18_Witness ==
    /\ Processed
    /\ nlpIn.documentType = "contract"
    /\ LET d == StoredDoc(documents, result.documentId)
       IN  /\ d.type = "contract"
           /\ d.riskScore = 0
           /\ {"Contract Number", "Party 1", "Party 2", "Company", "Effective Date",
               "Value"} \subseteq DOMAIN d.extractedFields
           /\ d.extractedFields["Value"] = <<"$", "5", "0", "0">>
           /\ d.status = "needs-review"
           /\ result.value.appliedRules = <<"Missing Fields Review">>

\* The text holds none of the risk keywords
NoRiskKeyword(text) ==
    /\ \A k \in 1..Len(highRiskKeywords) :
           ~Includes(toLowerCase(text), highRiskKeywords[k])
    /\ \A k \in 1..Len(mediumRiskKeywords) :
           ~Includes(toLowerCase(text), mediumRiskKeywords[k])

\* An invoice without risk keyword whose extraction gave Invoice Number,
\* Date and an Amount that reads as a number below 5000
SimpleInvoice(d) ==
    /\ d.type = "invoice"
    /\ NoRiskKeyword(d.rawText)
    /\ {"Invoice Number", "Date", "Amount"} \subseteq DOMAIN d.extractedFields
    /\ ~ParseFloat(StripCurrency(d.extractedFields["Amount"])).nan
    /\ NumLT(ParseFloat(StripCurrency(d.extractedFields["Amount"])), 5000)

\* C19: an invoice whose text holds no risk keyword and whose extraction
\* yields Invoice Number, Date and an Amount below 5000 is stored with risk
\* score 0, and processDocument auto-approves it: status approved,
\* autoApproved true, appliedRules = [Auto Approve Simple Documents].
C19_SimpleInvoiceAutoApproved ==
    /\ \A i \in 1..Len(documents) :
           SimpleInvoice(documents[i]) => documents[i].riskScore = 0
    /\ (Processed /\ SimpleInvoice(StoredDoc(documents, result.documentId)))
       => /\ result.value.status = "approved"
          /\ result.value.autoApproved = TRUE
          /\ result.value.appliedRules = <<"Auto Approve Simple Documents">>
          /\ StoredDoc(documents, result.documentId).status = "approved"
          /\ StoredDoc(documents, result.documentId).autoApproved = TRUE

\* The scan "Invoice INV-7 01/15/2024 $4,999.99" has been analysed, stored
\* and auto-approved.
C19_Witness ==
    /\ Processed
    /\ SimpleInvoice(StoredDoc(documents, result.documentId))
    /\ StoredDoc(documents, result.documentId).extractedFields["Amount"]
           = <<"$", "4", ",", "9", "9", "9", ".", "9", "9">>
    /\ DOMAIN StoredDoc(documents, result.documentId).extractedFields
           = {"Invoice Number", "Date", "Amount"}
    /\ StoredDoc(documents, result.documentId).status = "approved"
    /\ nlpOut # <<>>
    /\ nlpOut[1].riskScore = 0

\* The text the amount is read from: the first non-empty one of Amount,
\* Value and Total, <<>> when there is none
AmountText(d) ==
    IF PresentField(d, "Amount") THEN d.extractedFields["Amount"]
    ELSE IF PresentField(d, "Value") THEN d.extractedFields["Value"]
    ELSE IF PresentField(d, "Total") THEN d.extractedFields["Total"]
    ELSE <<>>

AmountUnreadable(d) ==
    AmountText(d) = <<>> \/ ParseFloat(StripCurrency(AmountText(d))).nan

\* C21: evaluateRules returns, for any document (also one without
\* extractedFields, without riskScore, or with an amount that is absent or
\* not a number), a decision whose status is needs-review or approved; an
\* absent or unreadable amount counts as 0 in every rule: the two amount
\* rules do not match, and Auto Approve takes the amount as below 1000.
C21_AlwaysADecision ==
    evalOut # <<>>
    => /\ evalOut[1].decision.status \in {"needs-review", "approved"}
       /\ evalOut[1].decision.autoApproved \in BOOLEAN
       /\ AmountUnreadable(evalDoc)
          => /\ \A i \in 1..Len(evalOut[1].decision.appliedRules) :
                    evalOut[1].decision.appliedRules[i]
                        \notin {"Large Amount Review", "Moderate Risk Review"}
             /\ (~HighRiskCond(evalDoc) /\ ~MissingFieldsCond(evalDoc))
                => (evalOut[1].decision.status = "approved"
                    <=> (Has(evalDoc, "riskScore") /\ evalDoc.riskScore <= 3))

\* A document without extractedFields and without riskScore has been given
\* a decision.
C21_Witness ==
    /\ evalOut # <<>>
    /\ ~Has(evalDoc, "extractedFields")
    /\ ~Has(evalDoc, "riskScore")
    /\ evalOut[1].decision.status = "needs-review"

\* The store after the handler of a call has run alone on a store
RunAlone(store, call) ==
    LET i == FindIndex(store.documents, call.documentId)
        c == [call EXCEPT !.document = <<store.documents[i]>>,
                          !.decision = <<evaluateRules(store.documents[i])>>]
    IN  [documents |-> UpdatedDocuments(store.documents, call.documentId, CallUpdates(c)),
         auditLogs |-> PushedLogs(store.auditLogs, LogEntry(currentUser, CallEntry(c)))]

\* C22: when the handlers of two pages on the same document interleave at
\* their reads and writes of the store and both have returned, the documents
\* and the audit log are those that one of the two serial orders leaves: no
\* update of the document and no audit entry is lost.
C22_SerialOutcome ==
    (Len(calls) = 2 /\ calls[1].at = "returned" /\ calls[2].at = "returned")
    => [documents |-> documents, auditLogs |-> auditLogs]
           \in { RunAlone(RunAlone(calls[1].before, calls[1]), calls[2]),
                 RunAlone(RunAlone(calls[2].before, calls[2]), calls[1]) }

\* The entry names the key with a non-empty value
Explicit(entry, key) == key \in DOMAIN entry /\ entry[key] # ""

\* Audit.log has just returned
Logged == result.op = "log" /\ ~result.threw /\ auditLogs # <<>>

\* C23: the entry Audit.log stores has the userId and the userName of the
\* caller's entry where it gives them; otherwise those of the session user;
\* and userName "System" with userId null when nobody is logged in.  Its id
\* and its timestamp are those the store assigns at the time of the call,
\* whatever the caller's entry holds.
C23_ActorRecorded ==
    Logged
    => LET entry == result.args[1]
           stored == auditLogs[Len(auditLogs)]
       IN  /\ stored.userId = IF Explicit(entry, "userId") THEN entry.userId
                              ELSE IF currentUser # <<>> THEN currentUser[1].id
                              ELSE Null
           /\ stored.userName = IF Explicit(entry, "userName") THEN entry.userName
                                ELSE IF currentUser # <<>> THEN currentUser[1].username
                                ELSE "System"
           /\ stored.timestamp = clock - 1
           /\ stored.id = "log_" \o ToString(clock - 1)

\* With the reviewer logged in, an entry that names only a userName and
\* brings an id and a timestamp of its own has been logged.
C23_Witness ==
    /\ Logged
    /\ currentUser # <<>>
    /\ "id" \in DOMAIN result.args[1]
    /\ "userId" \notin DOMAIN result.args[1]
    /\ auditLogs[Len(auditLogs)].userId = "user_2"
    /\ auditLogs[Len(auditLogs)].userName = "auditor"
    /\ auditLogs[Len(auditLogs)].id # result.args[1].id

\* ------------------------------------------- Audit: the text of exportToCSV
\* In this part a text is the sequence of its characters, and an entry with
\* no value under a key (null or undefined) does not have the key.
Csv_Timestamp == <<"T", "i", "m", "e", "s", "t", "a", "m", "p">>

Csv_User == <<"U", "s", "e", "r">>

Csv_Action == <<"A", "c", "t", "i", "o", "n">>

Csv_Document == <<"D", "o", "c", "u", "m", "e", "n", "t">>

Csv_Details == <<"D", "e", "t", "a", "i", "l", "s">>

Csv_Comments == <<"C", "o", "m", "m", "e", "n", "t", "s">>

Csv_NA == <<"N", "/", "A">>

Csv_undefined == <<"u", "n", "d", "e", "f", "i", "n", "e", "d">>

\* Array.prototype.join(sep) of texts
RECURSIVE JoinTexts(_, _)
JoinTexts(texts, sep) ==
    IF texts = <<>> THEN <<>>
    ELSE IF Len(texts) = 1 THEN texts[1]
    ELSE texts[1] \o sep \o JoinTexts(Tail(texts), sep)

\* let csv = 'Timestamp,User,Action,Document,Details,Comments\n'
CsvHeader ==
    JoinTexts(<<Csv_Timestamp, Csv_User, Csv_Action, Csv_Document, Csv_Details,
                Csv_Comments>>, <<",">>) \o <<"\n">>

\* String(log[key]) of a text, and of a value that is not there
FieldString(log, key) == IF Has(log, key) THEN log[key] ELSE Csv_undefined

\* log[key] || fallback
FieldOr(log, key, fallback) == IF FieldTruthy(log, key) THEN log[key] ELSE fallback

\* const row = [ ... ], each field as String(field) reads it
CsvRowTexts(log) ==
    <<FieldString(log, "timestamp"), FieldString(log, "userName"),
      FieldString(log, "action"), FieldOr(log, "documentName", Csv_NA),
      FieldString(log, "details"), FieldOr(log, "comments", <<>>)>>

\* .replace(/"/g, '""')
RECURSIVE ReplaceQuotes(_)
ReplaceQuotes(field) ==
    IF field = <<>> THEN <<>>
    ELSE (IF Head(field) = "\"" THEN <<"\"", "\"">> ELSE <<Head(field)>>)
         \o ReplaceQuotes(Tail(field))

\* the escaping if it wrapped the field without doubling its quotes
EscapeFieldNoDoubling(field) == <<"\"">> \o field \o <<"\"">>

\* `"${String(field).replace(/"/g, '""')}"`
EscapeField(field) == <<"\"">> \o ReplaceQuotes(field) \o <<"\"">>

\* escapedRow.join(',') + '\n'
CsvLine(log) ==
    LET row == CsvRowTexts(log)
        escapedRow == [i \in 1..Len(row) |-> EscapeField(row[i])]
    IN  JoinTexts(escapedRow, <<",">>) \o <<"\n">>

\* logs.forEach(log => { ... csv += ... })
RECURSIVE CsvLines(_)
CsvLines(logs) ==
    IF logs = <<>> THEN <<>> ELSE CsvLine(Head(logs)) \o CsvLines(Tail(logs))

exportToCSV(logs) == CsvHeader \o CsvLines(logs)

\* Texts of audit entries with the characters that matter to a CSV reader
MaxFieldLen == 2

CsvChars == {"x", "\"", ",", "\n"}

CsvTexts == UNION { [1..n -> CsvChars] : n \in 0..MaxFieldLen }

CsvNames == {<<>>, Csv_NA, <<"\"", "a", "\"", ",", "\n", "b">>}

CsvEntries ==
    { [id |-> <<"l">>, timestamp |-> <<"1">>, userId |-> <<"u">>,
       userName |-> userName, action |-> <<"v">>, details |-> details]
      @@ more :
        userName \in CsvTexts, details \in {<<>>, <<"\n">>, <<"x", ",">>},
        more \in { EmptyObject }
                 \cup { "documentName" :> name : name \in CsvNames }
                 \cup { "comments" :> <<"\"", "\"">> }
                 \cup { ("documentName" :> <<"\"">>) @@ ("comments" :> <<",">>) } }

InitCsv ==
    /\ documents = <<>>
    /\ auditLogs \in { <<entry>> : entry \in CsvEntries }
                     \cup { <<entry, entry>> : entry \in CsvEntries }
    /\ currentUser = <<>>
    /\ clock = 1
    /\ result = NoResult
    /\ quotaExceeded = FALSE
    /\ evalDoc = EmptyObject
    /\ evalOut = EmptyObject
    /\ users = <<>>
    /\ nlpIn = <<>>
    /\ nlpOut = <<>>
    /\ ocr = OCR
    /\ calls = <<>>

\* Audit.exportToCSV, its value being the text of the file
ExportToCSVText ==
    /\ result' = Returned("exportToCSV", Null, <<>>, exportToCSV(auditLogs), <<>>)
    /\ UNCHANGED <<documents, auditLogs, currentUser, clock, quotaExceeded,
                   evalDoc, evalOut, users, nlpIn, nlpOut, calls, ocr>>

NextCsv == ExportToCSVText

SpecCsv == InitCsv /\ [][NextCsv]_vars

\* A reader of CSV text. A character is inside a quoted field when an odd
\* number of double quotes stands before it; a newline outside quotes ends a
\* row and a comma outside quotes ends a field.
OutsideQuotes(text, i) ==
    Cardinality({j \in 1..(i - 1) : text[j] = "\""}) % 2 = 0

Separators(text, sep) ==
    {i \in 1..Len(text) : text[i] = sep /\ OutsideQuotes(text, i)}

\* The pieces of the text between the separators at the positions
Pieces(text, positions) ==
    LET at == [k \in 1..Cardinality(positions) |->
                  CHOOSE i \in positions :
                      Cardinality({j \in positions : j < i}) = k - 1]
        from(k) == IF k = 1 THEN 1 ELSE at[k - 1] + 1
        to(k) == IF k > Len(at) THEN Len(text) ELSE at[k] - 1
    IN  [k \in 1..(Len(at) + 1) |-> SubSeq(text, from(k), to(k))]

\* Halve the doubled quotes
RECURSIVE HalveQuotes(_)
HalveQuotes(field) ==
    IF field = <<>> THEN <<>>
    ELSE IF Len(field) >= 2 /\ field[1] = "\"" /\ field[2] = "\""
    THEN <<"\"">> \o HalveQuotes(SubSeq(field, 3, Len(field)))
    ELSE <<Head(field)>> \o HalveQuotes(Tail(field))

\* Strip the outer quotes of a quoted field and halve its doubled quotes
Unescape(field) ==
    IF Len(field) >= 2 /\ field[1] = "\"" /\ field[Len(field)] = "\""
    THEN HalveQuotes(SubSeq(field, 2, Len(field) - 1))
    ELSE field

CsvReadRow(line) ==
    LET fields == Pieces(line, Separators(line, ","))
    IN  [k \in 1..Len(fields) |-> Unescape(fields[k])]

\* The rows of a text in which a newline ends every row
CsvRead(text) ==
    LET lines == Pieces(text, Separators(text, "\n"))
    IN  [k \in 1..(Len(lines) - 1) |-> CsvReadRow(lines[k])]

CsvHeaderRow ==
    <<Csv_Timestamp, Csv_User, Csv_Action, Csv_Document, Csv_Details, Csv_Comments>>

\* The value an entry has under a key, the empty text when it has none
FieldValue(log, key) == IF Has(log, key) THEN log[key] ELSE <<>>

SixFields(log) ==
    <<FieldValue(log, "timestamp"), FieldValue(log, "userName"),
      FieldValue(log, "action"), FieldValue(log, "documentName"),
      FieldValue(log, "details"), FieldValue(log, "comments")>>

SixFieldsOrNA(log) ==
    [SixFields(log) EXCEPT ![4] = IF @ = <<>> THEN Csv_NA ELSE @]

Exported == result.op = "exportToCSV"

\* C24 as stated: the text exportToCSV returns reads back as the header and
\* then, for each audit entry in order, exactly the six values the entry has.
C24_RowsReadBack ==
    Exported =>
        CsvRead(result.value)
            = <<CsvHeaderRow>> \o [i \in 1..Len(auditLogs) |-> SixFields(auditLogs[i])]

\* C24: the text exportToCSV returns reads back as the header and then, for
\* each audit entry in order, its timestamp, userName, action, details and
\* comments exactly as the entry has them, commas, double quotes and newlines
\* included, and its documentName, or the text N/A when it has none.
C24_RowsReadBackOrNA ==
    Exported =>
        CsvRead(result.value)
            = <<CsvHeaderRow>> \o [i \in 1..Len(auditLogs) |-> SixFieldsOrNA(auditLogs[i])]

\* An exported entry whose fields hold a comma, a newline and double quotes
C24_Witness ==
    /\ Exported
    /\ \E i \in 1..Len(auditLogs) :
        /\ Has(auditLogs[i], "documentName")
        /\ {"\"", ",", "\n"} \subseteq Range(auditLogs[i].documentName)
        /\ "\"" \in Range(auditLogs[i].userName)
        /\ "\n" \in Range(auditLogs[i].details)

\* The condition of the rule at a position of the fixed order
RuleCond(k, d) ==
    CASE k = 1 -> HighRiskCond(d)
      [] k = 2 -> LargeAmountCond(d)
      [] k = 3 -> MissingFieldsCond(d)
      [] k = 4 -> ModerateRiskCond(d)
      [] k = 5 -> AutoApproveCond(d)

TrueRules(d) == {k \in 1..5 : RuleCond(k, d)}

\* C25: the appliedRules of the decision of evaluateRules holds at most one
\* rule name; it holds one exactly when the condition of some rule is true,
\* and then it is the name of the first such rule in the fixed order, and
\* the decision's status, autoApproved and reason are the output of that
\* rule (needs-review and false for the four review rules, approved and
\* true for Auto Approve Simple Documents).
C25_FirstTrueRuleDecides ==
    evalOut # <<>> =>
        LET dec == evalOut[1].decision
        IN  /\ Len(dec.appliedRules) <= 1
            /\ (dec.appliedRules = <<>>) <=> (TrueRules(evalDoc) = {})
            /\ TrueRules(evalDoc) # {} =>
                  LET k == Least(TrueRules(evalDoc))
                  IN  /\ dec.appliedRules = <<FixedOrder[k]>>
                      /\ dec.status = IF k = 5 THEN "approved" ELSE "needs-review"
                      /\ dec.autoApproved = (k = 5)
                      /\ dec.reason = RuleEvaluate(k, evalDoc).reason

\* A document with a large amount and a missing critical field, for which
\* the conditions of two rules are true, has been decided by the first one.
C25_Witness ==
    /\ evalOut # <<>>
    /\ {2, 3} \subseteq TrueRules(evalDoc)
    /\ evalOut[1].decision.appliedRules = <<"Large Amount Review">>

AutoApproved == evalOut # <<>> /\ evalOut[1].decision.autoApproved = TRUE

\* C26: every document that evaluateRules auto-approves has the three
\* critical fields of its type present and non-empty, hence at least three
\* extracted fields, a risk score of at most 3 and an amount below 5000; no
\* document with fewer than two extracted fields is auto-approved, so the
\* alternative "amount < 1000 and at least one field" decides no outcome.
C26_AutoApprovedIsComplete ==
    /\ AutoApproved =>
          /\ evalOut[1].decision.status = "approved"
          /\ ~MissingFieldsCond(evalDoc)
          /\ KeyCount(evalDoc) >= 3
          /\ Has(evalDoc, "riskScore") /\ evalDoc.riskScore <= 3
          /\ NumLT(_extractAmount(evalDoc), 5000)
    /\ (evalOut # <<>> /\ KeyCount(evalDoc) < 2) =>
          /\ evalOut[1].decision.status = "needs-review"
          /\ evalOut[1].decision.autoApproved = FALSE

\* A document with exactly its three critical fields has been auto-approved.
C26_Witness ==
    /\ AutoApproved
    /\ KeyCount(evalDoc) = 3
    /\ evalOut[1].decision.appliedRules = <<"Auto Approve Simple Documents">>

\* A document with one extracted field, an amount below 1000 and a low risk
\* score, which meets the alternative of Auto Approve, has been sent to review.
OneFieldMeetsAlternative ==
    /\ evalOut # <<>>
    /\ KeyCount(evalDoc) = 1
    /\ AutoApproveCond(evalDoc)
    /\ evalOut[1].decision.appliedRules = <<"Missing Fields Review">>

\* ------------------------------------------------- the statistics views
\* Storage.getDocumentsByStatus
getDocumentsByStatus(status) == SelectSeq(documents, LAMBDA d : d.status = status)

\* Workflow.getPendingReviews
getPendingReviews == getDocumentsByStatus("needs-review")

\* documents.reduce((sum, d) => sum + (d.riskScore || 0), 0)
RECURSIVE SumRiskScores(_)
SumRiskScores(docs) ==
    IF docs = <<>> THEN 0
    ELSE (IF Has(Head(docs), "riskScore") THEN Head(docs).riskScore ELSE 0)
         + SumRiskScores(Tail(docs))

\* (sum / count).toFixed(2): the quotient rounded to hundredths, with two
\* decimals
ToFixed2(sum, count) ==
    LET hundredths == (200 * sum + count) \div (2 * count)
    IN  ToString(hundredths \div 100) \o "."
        \o ToString((hundredths % 100) \div 10) \o ToString(hundredths % 10)

\* Workflow.getStatistics
WorkflowGetStatistics ==
    [total |-> Len(documents),
     autoApproved |->
        Len(SelectSeq(documents, LAMBDA d : Has(d, "autoApproved") /\ d.autoApproved)),
     manuallyReviewed |->
        Len(SelectSeq(documents, LAMBDA d : Has(d, "reviewedBy") /\ TruthyStr(d.reviewedBy))),
     pending |-> Len(SelectSeq(documents, LAMBDA d : d.status = "needs-review")),
     approved |-> Len(SelectSeq(documents, LAMBDA d : d.status = "approved")),
     rejected |-> Len(SelectSeq(documents, LAMBDA d : d.status = "rejected")),
     averageRiskScore |->
        IF Len(documents) > 0
        THEN ToFixed2(SumRiskScores(documents), Len(documents)) ELSE "0"]

\* Storage.getStats
getStats ==
    [totalDocuments |-> Len(documents),
     pending |-> Len(SelectSeq(documents, LAMBDA d : d.status = "pending")),
     processing |-> Len(SelectSeq(documents, LAMBDA d : d.status = "processing")),
     needsReview |-> Len(SelectSeq(documents, LAMBDA d : d.status = "needs-review")),
     approved |-> Len(SelectSeq(documents, LAMBDA d : d.status = "approved")),
     rejected |-> Len(SelectSeq(documents, LAMBDA d : d.status = "rejected")),
     autoApproved |->
        Len(SelectSeq(documents,
                      LAMBDA d : d.status = "approved"
                                 /\ Has(d, "autoApproved") /\ d.autoApproved)),
     totalLogs |-> Len(auditLogs)]

\* C27: in every state reached by addDocument, processDocument,
\* approveDocument and rejectDocument, Workflow.getStatistics().autoApproved
\* equals Storage.getStats().autoApproved, and
\* Workflow.getStatistics().pending equals the length of getPendingReviews().
C27_StatisticsAgree ==
    /\ WorkflowGetStatistics.autoApproved = getStats.autoApproved
    /\ WorkflowGetStatistics.pending = Len(getPendingReviews)

\* The half of C27 about pending documents
PendingAgrees == WorkflowGetStatistics.pending = Len(getPendingReviews)

\* -------------------------------------------------------------------- OCR
\* A call of an async function of OCR runs to its next await in one step;
\* what it awaits (Tesseract.createWorker, worker.recognize,
\* worker.terminate, the promise of initialize) completes in a later step,
\* and steps of other calls may come in between. ocr.created counts the
\* workers created since terminate was last called, ocr.made all of them.
MaxOcrCalls == 3

NullWorkerError == "Failed to extract text: Cannot read properties of null (reading 'recognize')"

OcrTask(op, pc, error) == [op |-> op, pc |-> pc, error |-> error]

\* OCR.initialize called, by itself or as the first statement of
\* OCR.extractText: it returns the worker there is, or calls createWorker
OcrInitialize(op) ==
    /\ Len(ocr.tasks) < MaxOcrCalls
    /\ ocr' = [ocr EXCEPT !.tasks =
                  Append(@, OcrTask(op,
                                    IF ocr.worker = <<>> THEN "creating"
                                    ELSE IF op = "initialize" THEN "returned"
                                    ELSE "initialized",
                                    ""))]
    /\ UNCHANGED <<documents, auditLogs, currentUser, clock, result, quotaExceeded,
                   evalDoc, evalOut, users, nlpIn, nlpOut, calls>>

\* this.worker = await Tesseract.createWorker(...): the worker is there
OcrWorkerCreated(t) ==
    /\ t <= Len(ocr.tasks)
    /\ ocr.tasks[t].pc = "creating"
    /\ ocr' = [ocr EXCEPT !.worker = <<ocr.made + 1>>,
                          !.made = @ + 1,
                          !.created = @ + 1,
                          !.tasks[t].pc = IF ocr.tasks[t].op = "initialize"
                                          THEN "returned" ELSE "initialized"]
    /\ UNCHANGED <<documents, auditLogs, currentUser, clock, result, quotaExceeded,
                   evalDoc, evalOut, users, nlpIn, nlpOut, calls>>

\* createWorker rejects: initialize throws, and extractText throws in turn
OcrCreateWorkerFailed(t) ==
    /\ t <= Len(ocr.tasks)
    /\ ocr.tasks[t].pc = "creating"
    /\ ocr' = [ocr EXCEPT !.tasks[t] =
                  OcrTask(@.op, "thrown",
                          IF @.op = "initialize" THEN "OCR initialization failed"
                          ELSE "Failed to extract text: OCR initialization failed")]
    /\ UNCHANGED <<documents, auditLogs, currentUser, clock, result, quotaExceeded,
                   evalDoc, evalOut, users, nlpIn, nlpOut, calls>>

\* extractText after await this.initialize(): this.worker.recognize(imageUrl)
OcrRecognize(t) ==
    /\ t <= Len(ocr.tasks)
    /\ ocr.tasks[t].pc = "initialized"
    /\ ocr' = [ocr EXCEPT !.tasks[t] =
                  IF ocr.worker = <<>>
                  THEN OcrTask(@.op, "thrown", NullWorkerError)
                  ELSE OcrTask(@.op, "recognizing", "")]
    /\ UNCHANGED <<documents, auditLogs, currentUser, clock, result, quotaExceeded,
                   evalDoc, evalOut, users, nlpIn, nlpOut, calls>>

\* recognize resolves and extractText returns the text, or it rejects
OcrRecognized(t, ok) ==
    /\ t <= Len(ocr.tasks)
    /\ ocr.tasks[t].pc = "recognizing"
    /\ ocr' = [ocr EXCEPT !.tasks[t] =
                  IF ok THEN OcrTask(@.op, "returned", "")
                  ELSE OcrTask(@.op, "thrown", "Failed to extract text: recognize")]
    /\ UNCHANGED <<documents, auditLogs, currentUser, clock, result, quotaExceeded,
                   evalDoc, evalOut, users, nlpIn, nlpOut, calls>>

\* OCR.terminate called: with a worker it calls worker.terminate()
OcrTerminate ==
    /\ Len(ocr.tasks) < MaxOcrCalls
    /\ ocr' = [ocr EXCEPT !.created = 0,
                          !.tasks = Append(@, OcrTask("terminate",
                                                      IF ocr.worker = <<>> THEN "returned"
                                                      ELSE "terminating",
                                                      ""))]
    /\ UNCHANGED <<documents, auditLogs, currentUser, clock, result, quotaExceeded,
                   evalDoc, evalOut, users, nlpIn, nlpOut, calls>>

\* terminate after await this.worker.terminate(): this.worker = null
OcrTerminated(t) ==
    /\ t <= Len(ocr.tasks)
    /\ ocr.tasks[t].pc = "terminating"
    /\ ocr' = [ocr EXCEPT !.worker = <<>>, !.tasks[t].pc = "returned"]
    /\ UNCHANGED <<documents, auditLogs, currentUser, clock, result, quotaExceeded,
                   evalDoc, evalOut, users, nlpIn, nlpOut, calls>>

NextOcr ==
    \/ \E op \in {"initialize", "extractText"} : OcrInitialize(op)
    \/ \E t \in 1..MaxOcrCalls : OcrWorkerCreated(t)
    \/ \E t \in 1..MaxOcrCalls : OcrCreateWorkerFailed(t)
    \/ \E t \in 1..MaxOcrCalls : OcrRecognize(t)
    \/ \E t \in 1..MaxOcrCalls, ok \in BOOLEAN : OcrRecognized(t, ok)
    \/ OcrTerminate
    \/ \E t \in 1..MaxOcrCalls : OcrTerminated(t)

SpecOcr == Init /\ [][NextOcr]_vars

\* No more than one worker has been created since terminate was last called
OneWorkerAtMost == ocr.created <= 1

\* No call of extractText has read this.worker when it was null
NoNullWorkerUsed ==
    \A t \in 1..Len(ocr.tasks) : ocr.tasks[t].error # NullWorkerError

\* C28: between two calls of terminate at most one Tesseract worker is
\* created, also when initialize or extractText is called while an earlier
\* initialize awaits the creation of the worker, and extractText never calls
\* recognize on a worker reference that terminate has set to null.
C28_SingleWorker == OneWorkerAtMost /\ NoNullWorkerUsed

\* The captured amounts of an invoice text that read as a number no other
\* captured amount exceeds (read after their commas are taken out)
LargestAmounts(text) ==
    LET amounts == AmountMatches(text, 1)
        parsed  == Parsed(amounts)
    IN  { amounts[i] : i \in { k \in 1..Len(amounts) :
              /\ ~parsed[k].value.nan
              /\ \A j \in 1..Len(amounts) :
                     parsed[j].value.nan \/ ~NumLess(parsed[k].value, parsed[j].value) } }

\* C20: for an invoice text, extractInvoiceFields sets Amount to "$" followed
\* by the captured amount that is numerically the largest (after stripping
\* the thousands separators), wherever it stands in the text; with no
\* currency-marked amount there is no Amount key.
C20_LargestAmountWins ==
    (nlpOut # <<>> /\ nlpIn.documentType = "invoice")
    => IF AmountMatches(nlpIn.text, 1) = <<>>
       THEN ~Has(nlpOut[1].fields, "Amount")
       ELSE /\ Has(nlpOut[1].fields, "Amount")
            /\ \E a \in LargestAmounts(nlpIn.text) :
                   nlpOut[1].fields["Amount"] = <<"$">> \o a

====
